---- MODULE Spec2Model ----
(***************************************************************************)
(* A model of the JPyang plug-in (pyang/plugins/jpyang.py): the ordered    *)
(* code-element set, the identifier sanitizer, the type resolver, the      *)
(* constructors of a list class, the access methods of leaf and leaf-list  *)
(* children, the class generator, the emit entry point, the methods of a   *)
(* typedef class, the walk over the children of a statement with the       *)
(* addChild method built from it, and the body of a generated class.       *)
(* Python strings are modelled as sequences of one-character strings so    *)
(* that camelize, capitalize_first, slicing and concatenation are computed *)
(* as the code computes them.                                              *)
(***************************************************************************)
EXTENDS Integers, Sequences, FiniteSets, TLC

VARIABLES
    heap,                \* the JavaValue objects created so far, by object id
    map,                 \* OrderedSet.map: the keys of the dictionary
    link,                \* the doubly linked list: node -> [PREV, NEXT]
    calls,               \* the items passed to OrderedSet.add, in call order
    stmts,               \* the schema tree: statement id -> statement
    passes,              \* number of make_valid_identifiers runs on the tree
    before,              \* the statements as they were before the last run
    opts,                \* ctx.opts: the debug and verbose flags
    outputted_warnings,  \* the module-level list of warning keys
    stderr,              \* the warning lines printed so far (by key)
    request,             \* the statement last passed to get_types
    result,              \* what the last get_types call returned or raised
    node,                \* the list statement last given to a method generator
    built,               \* what ListMethodGenerator.constructors returned
    parent_key,          \* search_one('key') of the statement a class is for
    access_methods,      \* JavaClass.access_methods: child name -> methods
    child,               \* the statement last passed to generate_child
    child_error,         \* the exception the last generate_child raised
    documents,           \* the documents the validator loaded, by number
    modules,             \* the list of documents passed to emit
    errors,              \* ctx.errors: the diagnostics of the validator
    flags,               \* ctx.opts.ignore and ctx.opts.no_schema
    augmented_modules,   \* the module-level dictionary: name -> document
    written,             \* the class files written, in order
    schema,              \* the schema files written, in order
    sanitized,           \* make_valid_identifiers runs, by document
    pc,                  \* where emit is
    pass,                \* the position of emit's loop in modules
    pending,             \* what is left of augmented_modules.values()
    emit_error,          \* the exception that ended emit
    first,               \* what an earlier run on the same input wrote
    alias_stmt,          \* the typedef last given to a method generator
    alias_class,         \* the constructors and access methods of its class
    walk_stmt,           \* the statement generate_class walks
    passed,              \* the statements passed to generate_child, in order
    walk_done,           \* whether generate_class has walked it
    support_methods,     \* JavaClass.support_methods of its class
    appends,             \* the calls of append_access_method, in order
    body,                \* JavaClass.body, the rendered lines
    body_is,             \* whether JavaClass.body is None or a list
    ops,                 \* number of add_first, discard and pop calls so far
    popped               \* what the last OrderedSet.pop did

vars == <<heap, map, link, calls, stmts, passes, before,
          opts, outputted_warnings, stderr, request, result, node, built,
          parent_key, access_methods, child, child_error,
          documents, modules, errors, flags, augmented_modules, written,
          schema, sanitized, pc, pass, pending, emit_error, first,
          alias_stmt, alias_class,
          walk_stmt, passed, walk_done, support_methods,
          appends, body, body_is,
          ops, popped>>

osVars == <<heap, map, link, calls>>
idVars == <<stmts, passes, before>>
tyVars == <<opts, outputted_warnings, stderr, request, result>>
ctxVars == <<opts, outputted_warnings, stderr>>
lsVars == <<node, built>>
chVars == <<parent_key, access_methods, child, child_error>>
emVars == <<documents, modules, errors, flags, augmented_modules, written,
            schema, sanitized, pc, pass, pending, emit_error, first>>
tdVars == <<alias_stmt, alias_class>>
wkVars == <<walk_stmt, passed, walk_done, support_methods>>
bdVars == <<appends, body, body_is>>
rmVars == <<ops, popped>>

None == "None"

(***************************************************************************)
(* Strings                                                                 *)
(***************************************************************************)
java_reserved_words ==
    {<<"a","b","s","t","r","a","c","t">>, <<"a","s","s","e","r","t">>,
     <<"b","o","o","l","e","a","n">>, <<"b","r","e","a","k">>,
     <<"b","y","t","e">>, <<"c","a","s","e">>,
     <<"c","a","t","c","h">>, <<"c","h","a","r">>,
     <<"c","l","a","s","s">>, <<"c","o","n","s","t","*">>,
     <<"c","o","n","t","i","n","u","e">>, <<"d","e","f","a","u","l","t">>,
     <<"d","o","u","b","l","e">>, <<"d","o">>,
     <<"e","l","s","e">>, <<"e","n","u","m">>,
     <<"e","x","t","e","n","d","s">>, <<"f","a","l","s","e">>,
     <<"f","i","n","a","l">>, <<"f","i","n","a","l","l","y">>,
     <<"f","l","o","a","t">>, <<"f","o","r">>,
     <<"g","o","t","o","*">>, <<"i","f">>,
     <<"i","m","p","l","e","m","e","n","t","s">>, <<"i","m","p","o","r","t">>,
     <<"i","n","s","t","a","n","c","e","o","f">>, <<"i","n","t">>,
     <<"i","n","t","e","r","f","a","c","e">>, <<"l","o","n","g">>,
     <<"n","a","t","i","v","e">>, <<"n","e","w">>,
     <<"n","u","l","l">>, <<"p","a","c","k","a","g","e">>,
     <<"p","r","i","v","a","t","e">>, <<"p","r","o","t","e","c","t","e","d">>,
     <<"p","u","b","l","i","c">>, <<"r","e","t","u","r","n">>,
     <<"s","h","o","r","t">>, <<"s","t","a","t","i","c">>,
     <<"s","t","r","i","c","t","f","p">>, <<"s","u","p","e","r">>,
     <<"s","w","i","t","c","h">>, <<"s","y","n","c","h","r","o","n","i","z","e","d">>,
     <<"t","h","i","s">>, <<"t","h","r","o","w">>,
     <<"t","h","r","o","w","s">>, <<"t","r","a","n","s","i","e","n","t">>,
     <<"t","r","u","e">>, <<"t","r","y">>,
     <<"v","o","i","d">>, <<"v","o","l","a","t","i","l","e">>,
     <<"w","h","i","l","e">>}

java_lang ==
    {<<"B","o","o","l","e","a","n">>, <<"B","y","t","e">>,
     <<"D","o","u","b","l","e">>, <<"F","l","o","a","t">>,
     <<"I","n","t","e","g","e","r">>, <<"L","o","n","g">>,
     <<"N","u","m","b","e","r">>, <<"O","b","j","e","c","t">>,
     <<"S","h","o","r","t">>, <<"S","t","r","i","n","g">>}

LowerCase == <<"a","b","c","d","e","f","g","h","i","j","k","l","m","n","o","p","q","r","s","t","u","v","w","x","y","z">>
UpperCase == <<"A","B","C","D","E","F","G","H","I","J","K","L","M","N","O","P","Q","R","S","T","U","V","W","X","Y","Z">>

java_built_in == java_reserved_words \cup java_lang

immutable_stmts == {"type", "typedef", "namespace", "prefix", "organization",
                    "contact", "description", "range"}

\* str.capitalize() of a single character
Capitalize(c) ==
    IF \E i \in 1..26 : LowerCase[i] = c
    THEN UpperCase[CHOOSE i \in 1..26 : LowerCase[i] = c]
    ELSE c

capitalize_first(string) ==
    IF string = <<>> THEN <<>>
    ELSE <<Capitalize(string[1])>> \o SubSeq(string, 2, Len(string))

\* camelize, from position i of string on: the loop over pairwise(string)
RECURSIVE camelize_from(_, _)
camelize_from(string, i) ==
    IF i > Len(string) THEN <<>>
    ELSE IF i < Len(string) /\ string[i] \in {"-", "."}
         THEN capitalize_first(<<string[i + 1]>>) \o camelize_from(string, i + 2)
         ELSE <<string[i]>> \o camelize_from(string, i + 1)

camelize(string) == IF string = None THEN <<>> ELSE camelize_from(string, 1)

\* '.'.join(parts)
RECURSIVE join_dot(_)
join_dot(parts) ==
    IF parts = <<>> THEN <<>>
    ELSE IF Len(parts) = 1 THEN parts[1]
    ELSE parts[1] \o <<".">> \o join_dot(Tail(parts))

(***************************************************************************)
(* OrderedSet and the code elements it holds                               *)
(***************************************************************************)
MaxObjs == 3
MaxCalls == 4

ElementNames == {"f", "g"}
ElementValues == {None, "0"}
ImportStrings == {"a.B", "c.D"}

\* JavaValue.__init__ with the given name and value, other arguments default
JavaValue(name, value) ==
    [exact |-> None, value |-> value, indent |-> 0, javadocs |-> <<>>,
     modifiers |-> <<>>, name |-> name, imports |-> {}]

\* References to Python objects: a str (by its text) or a JavaValue (by id)
StrItem(s) == [kind |-> "str", s |-> s, id |-> 0]
ObjItem(i) == [kind |-> "obj", s |-> "", id |-> i]
END        == [kind |-> "end", s |-> "", id |-> 0]

\* JavaValue.__eq__: every instance attribute of self equals that of other
\* (str.__eq__ for two strings; a str has none of the attributes)
Eq(a, b) ==
    IF a.kind = "str" /\ b.kind = "str" THEN a.s = b.s
    ELSE IF a.kind = "obj" /\ b.kind = "obj" THEN heap[a.id] = heap[b.id]
    ELSE FALSE

\* hash(a) = hash(b): JavaValue defines __eq__ but no __hash__, so it keeps
\* object.__hash__, which is derived from the object's identity
SameHash(a, b) ==
    IF a.kind = "str" /\ b.kind = "str" THEN a.s = b.s
    ELSE IF a.kind = "obj" /\ b.kind = "obj" THEN a.id = b.id
    ELSE FALSE

\* OrderedSet.__contains__: item in self.map, a dict lookup (hash, then
\* identity or __eq__)
Contains(item) ==
    \E k \in map : SameHash(k, item) /\ (k = item \/ Eq(k, item))

\* OrderedSet.__len__
SetLen == Cardinality(map)

PREV == "PREV"
NEXT == "NEXT"

\* OrderedSet._iterate(iter_index), from node curr on
RECURSIVE iterate_from(_, _)
iterate_from(curr, iter_index) ==
    IF curr = END THEN <<>>
    ELSE <<curr>> \o iterate_from(link[curr][iter_index], iter_index)

_iterate(iter_index) == iterate_from(link[END][iter_index], iter_index)

\* OrderedSet.__iter__
Iter == _iterate(NEXT)

Items == {StrItem(s) : s \in ImportStrings} \cup {ObjItem(i) : i \in 1..Len(heap)}

InitOrderedSet ==
    /\ heap = <<>>
    /\ map = {}
    /\ link = (END :> [PREV |-> END, NEXT |-> END])
    /\ calls = <<>>

\* a code element is constructed by a method generator
NewJavaValue(name, value) ==
    /\ Len(heap) < MaxObjs
    /\ heap' = Append(heap, JavaValue(name, value))
    /\ UNCHANGED <<map, link, calls>>

\* OrderedSet.add(item)
add(item) ==
    /\ Len(calls) < MaxCalls
    /\ calls' = Append(calls, item)
    /\ IF ~Contains(item)
       THEN LET last == link[END][PREV] IN
            /\ map' = map \cup {item}
            /\ link' = IF last = END
                       THEN (item :> [PREV |-> END, NEXT |-> END]) @@
                            (END :> [PREV |-> item, NEXT |-> item])
                       ELSE (item :> [PREV |-> last, NEXT |-> END]) @@
                            [link EXCEPT ![last][NEXT] = item,
                                         ![END][PREV] = item]
       ELSE UNCHANGED <<map, link>>
    /\ UNCHANGED heap

\* ---- the operations that insert in front and that remove ----
MaxOps == 3

\* the result of the last pop: the exception it raised or the item it
\* returned, whether the set was empty before it, and len(set) after it
Popped(raised, item, was_empty, len) ==
    [raised |-> raised, item |-> item, was_empty |-> was_empty, len |-> len]
NoPop == Popped("", END, FALSE, 0)

\* the items handed to the set: an import string and two code elements
\* that are equal field by field
LinkedItems == {StrItem("a.B"), ObjItem(1), ObjItem(2)}

InitLinkedSet ==
    /\ heap = <<JavaValue("f", None), JavaValue("f", None)>>
    /\ map = {}
    /\ link = (END :> [PREV |-> END, NEXT |-> END])
    /\ calls = <<>>
    /\ ops = 0
    /\ popped = NoPop

\* an add_first that forgets self.end[self.NEXT][self.PREV] = self.map[item]
add_first_forward_only(item) ==
    /\ ops < MaxOps
    /\ ops' = ops + 1
    /\ IF ~Contains(item)
       THEN LET first_ == link[END][NEXT] IN
            /\ map' = map \cup {item}
            /\ link' = (item :> [PREV |-> END, NEXT |-> first_]) @@
                        [link EXCEPT ![END][NEXT] = item]
       ELSE UNCHANGED <<map, link>>
    /\ UNCHANGED <<heap, calls, popped>>

\* OrderedSet.add_first(item)
add_first(item) ==
    /\ ops < MaxOps
    /\ ops' = ops + 1
    /\ IF ~Contains(item)
       THEN LET first_ == link[END][NEXT] IN
            /\ map' = map \cup {item}
            /\ link' = IF first_ = END
                       THEN (item :> [PREV |-> END, NEXT |-> END]) @@
                            (END :> [PREV |-> item, NEXT |-> item])
                       ELSE (item :> [PREV |-> END, NEXT |-> first_]) @@
                            [link EXCEPT ![first_][PREV] = item,
                                         ![END][NEXT] = item]
       ELSE UNCHANGED <<map, link>>
    /\ UNCHANGED <<heap, calls, popped>>

\* the dictionary and the list after self.map.pop(item) and the two
\* assignments of discard, for a member item
discarded(item) ==
    LET prev == link[item][PREV]
        after == link[item][NEXT]
        unlinked == [[link EXCEPT ![prev][NEXT] = after]
                        EXCEPT ![after][PREV] = prev]
    IN  [map |-> map \ {item},
         link |-> [n \in DOMAIN link \ {item} |-> unlinked[n]]]

\* OrderedSet.discard(item)
discard(item) ==
    /\ ops < MaxOps
    /\ ops' = ops + 1
    /\ IF Contains(item)
       THEN /\ map' = discarded(item).map
            /\ link' = discarded(item).link
       ELSE UNCHANGED <<map, link>>
    /\ UNCHANGED <<heap, calls, popped>>

\* OrderedSet.pop(last)
pop(last) ==
    /\ ops < MaxOps
    /\ ops' = ops + 1
    /\ IF SetLen = 0
       THEN /\ popped' = Popped("KeyError", END, TRUE, SetLen)
            /\ UNCHANGED <<map, link>>
       ELSE LET item == IF last THEN _iterate(PREV)[1] ELSE _iterate(NEXT)[1]
            IN  /\ IF Contains(item)
                   THEN /\ map' = discarded(item).map
                        /\ link' = discarded(item).link
                   ELSE UNCHANGED <<map, link>>
                /\ popped' = Popped("", item, FALSE, Cardinality(map'))
    /\ UNCHANGED <<heap, calls>>

(***************************************************************************)
(* String literals of the type resolver, as character sequences           *)
(***************************************************************************)
s_string == <<"s","t","r","i","n","g">>
s_boolean == <<"b","o","o","l","e","a","n">>
s_enumeration == <<"e","n","u","m","e","r","a","t","i","o","n">>
s_binary == <<"b","i","n","a","r","y">>
s_bits == <<"b","i","t","s">>
s_instance_identifier == <<"i","n","s","t","a","n","c","e","-","i","d","e","n","t","i","f","i","e","r">>
s_leafref == <<"l","e","a","f","r","e","f">>
s_identityref == <<"i","d","e","n","t","i","t","y","r","e","f">>
s_empty == <<"e","m","p","t","y">>
s_int8 == <<"i","n","t","8">>
s_int16 == <<"i","n","t","1","6">>
s_int32 == <<"i","n","t","3","2">>
s_int64 == <<"i","n","t","6","4">>
s_uint8 == <<"u","i","n","t","8">>
s_uint16 == <<"u","i","n","t","1","6">>
s_uint32 == <<"u","i","n","t","3","2">>
s_uint64 == <<"u","i","n","t","6","4">>
s_decimal64 == <<"d","e","c","i","m","a","l","6","4">>
s_union == <<"u","n","i","o","n">>
s_String == <<"S","t","r","i","n","g">>
s_BigInteger == <<"B","i","g","I","n","t","e","g","e","r">>
s_Element == <<"E","l","e","m","e","n","t">>
s_BigDecimal == <<"B","i","g","D","e","c","i","m","a","l">>
s_long == <<"l","o","n","g">>
s_int == <<"i","n","t">>
s_short == <<"s","h","o","r","t">>
s_byte == <<"b","y","t","e">>
s_com_tailf_jnc_Yang == <<"c","o","m",".","t","a","i","l","f",".","j","n","c",".","Y","a","n","g">>
s_com_tailf_jnc_YangUI == <<"c","o","m",".","t","a","i","l","f",".","j","n","c",".","Y","a","n","g","U","I">>
s_src == <<"s","r","c">>
s_gen == <<"g","e","n">>
s_src_gen == <<"s","r","c","/","g","e","n">>
s_foo == <<"f","o","o">>
s_my_type == <<"m","y","-","t","y","p","e">>
s_percent == <<"p","e","r","c","e","n","t">>
s_my_pct == <<"m","y","-","p","c","t">>
s_m == <<"m">>
s_c == <<"c">>
s_x == <<"x">>
s_sub == <<"s","u","b">>
s_addr == <<"a","d","d","r">>
s_m_percent == <<"m",":","p","e","r","c","e","n","t">>
s_l == <<"l">>
s_y == <<"y">>
s_b == <<"b">>
s_t == <<"t">>
s_path == <<"/","c">>
s_TYPE_NOT_FOUND == <<"T","Y","P","E","_","N","O","T","_","F","O","U","N","D">>
s_FEATURE_NOT_FOUND == <<"F","E","A","T","U","R","E","_","N","O","T","_","F","O","U","N","D">>
s_IDENTITY_NOT_FOUND == <<"I","D","E","N","T","I","T","Y","_","N","O","T","_","F","O","U","N","D">>
s_GROUPING_NOT_FOUND == <<"G","R","O","U","P","I","N","G","_","N","O","T","_","F","O","U","N","D">>
s_NODE_NOT_FOUND == <<"N","O","D","E","_","N","O","T","_","F","O","U","N","D">>
s_MODULE_NOT_FOUND == <<"M","O","D","U","L","E","_","N","O","T","_","F","O","U","N","D">>
s_MODULE_NOT_FOUND_REV == <<"M","O","D","U","L","E","_","N","O","T","_","F","O","U","N","D","_","R","E","V">>
s_Target_missing ==
    <<"T","a","r","g","e","t"," ","m","i","s","s","i","n","g"," ","f","r","o","m"," ">>
    \o <<"a","u","g","m","e","n","t"," ","s","t","a","t","e","m","e","n","t">>
s_id == <<"i","d">>
s_name == <<"n","a","m","e">>
s_Value == <<"V","a","l","u","e">>

(***************************************************************************)
(* Identifier sanitizer                                                    *)
(***************************************************************************)
MaxNameLen == 2
MaxPasses == 3

Alphabet == {"a", "-"}

RECURSIVE StringsUpTo(_)
StringsUpTo(n) ==
    IF n = 0 THEN {<<>>}
    ELSE LET shorter == StringsUpTo(n - 1) IN
         shorter \cup {Append(s, c) : s \in shorter, c \in Alphabet}

NodeNames ==
    (StringsUpTo(MaxNameLen) \ {<<>>}) \cup
    {<<"a","-","-","b">>, <<"a",".","b">>, <<"d","o">>, <<"d","-","o">>,
     <<"i","n","t">>, <<"g","o","t","o">>, <<"S","t","r","i","n","g">>}

\* the tree: a document root, one child of it, one grandchild
Root == 1
StmtIds == 1..3

\* keywords of the child and of the grandchild below it
ChildKinds == {<<"container", "leaf">>, <<"container", "description">>,
               <<"list", "leaf">>, <<"typedef", "type">>}

DataDef == {"container", "list", "leaf", "leaf-list"}

\* has_i_children: whether the validator attached the i_children attribute
Stmt(keyword, arg, substmts, has_i_children, i_children) ==
    [keyword |-> keyword, arg |-> arg, substmts |-> substmts,
     has_i_children |-> has_i_children, i_children |-> i_children]

\* the effective children the validator attaches: the data definition
\* statements among the substatements
EffectiveChildren(kw, sub) == IF kw \in DataDef THEN <<sub>> ELSE <<>>

InitTree ==
    \E kinds \in ChildKinds :
    \E n1, n2, n3 \in NodeNames :
    \E annotated \in BOOLEAN :
        stmts = (1 :> Stmt("module", n1, <<2>>, annotated,
                           IF annotated THEN EffectiveChildren(kinds[1], 2)
                           ELSE <<>>)) @@
                (2 :> Stmt(kinds[1], n2, <<3>>,
                           annotated /\ kinds[1] \in {"container", "list"},
                           IF annotated /\ kinds[1] \in {"container", "list"}
                           THEN EffectiveChildren(kinds[2], 3)
                           ELSE <<>>)) @@
                (3 :> Stmt(kinds[2], n3, <<>>, FALSE, <<>>))

\* make_valid_identifier(stmt), on the statement table S
make_valid_identifier(S, n) ==
    IF S[n].keyword \notin immutable_stmts /\ S[n].arg # <<>>
    THEN LET c == camelize(S[n].arg) IN
         [S EXCEPT ![n].arg = IF c \in java_reserved_words
                              THEN <<"J">> \o c ELSE c]
    ELSE S

\* make_valid_identifiers(stmt): the statement, then its substatements, then
\* its i_children when it has them; the statements are rewritten in place
RECURSIVE make_valid_identifiers(_, _), make_valid_list(_, _)
make_valid_identifiers(S, n) ==
    LET S1 == make_valid_identifier(S, n)
        S2 == make_valid_list(S1, S1[n].substmts)
    IN  IF S2[n].has_i_children
        THEN make_valid_list(S2, S2[n].i_children)
        ELSE S2

make_valid_list(S, list) ==
    IF list = <<>> THEN S
    ELSE make_valid_list(make_valid_identifiers(S, Head(list)), Tail(list))

InitIdentifiers ==
    /\ InitTree
    /\ passes = 0
    /\ before = stmts

\* one run of make_valid_identifiers on the document root
Sanitize ==
    /\ passes < MaxPasses
    /\ before' = stmts
    /\ stmts' = make_valid_identifiers(stmts, Root)
    /\ passes' = passes + 1

(***************************************************************************)
(* Type resolver                                                           *)
(***************************************************************************)
\* A statement as the resolver sees it.  parents: the arg of each ancestor,
\* nearest first, the document root last.  type: the result of
\* search_one('type'), as a sequence of length 0 or 1.  i_typedef_is: whether
\* the i_typedef attribute is absent, None or a typedef statement.
Statement(keyword, arg, parents, type, i_typedef_is, i_typedef) ==
    [keyword |-> keyword, arg |-> arg, parents |-> parents, type |-> type,
     i_typedef_is |-> i_typedef_is, i_typedef |-> i_typedef]

NoMsg == [text |-> "", key |-> <<>>]
NoSupportMsg(key) ==
    [text |-> "No support for type \"%s\", defaulting to string.", key |-> key]

\* print_warning(msg, key, ctx) with a non-empty msg; out is the pair of the
\* outputted_warnings list and the lines written to stderr
print_warning_msg(msg, key, ctx, out) ==
    IF (key = <<>> \/ \A i \in 1..Len(out.outputted_warnings) :
                          out.outputted_warnings[i] # key)
       /\ (ctx.debug \/ ctx.verbose)
    THEN [outputted_warnings |->
              IF key # <<>> THEN Append(out.outputted_warnings, key)
              ELSE out.outputted_warnings,
          stderr |-> Append(out.stderr, [line |-> "WARNING: ", msg |-> msg])]
    ELSE out

\* print_warning(msg, key, ctx): an empty msg is replaced by the default
\* message in a recursive call, which tests the same condition again
print_warning(msg, key, ctx, out) ==
    IF (key = <<>> \/ \A i \in 1..Len(out.outputted_warnings) :
                          out.outputted_warnings[i] # key)
       /\ (ctx.debug \/ ctx.verbose)
    THEN IF msg # NoMsg
         THEN print_warning_msg(msg, key, ctx, out)
         ELSE print_warning_msg(NoSupportMsg(key), key, ctx, out)
    ELSE out

\* string.split(sep)
RECURSIVE split_from(_, _, _, _)
split_from(string, sep, i, word) ==
    IF i > Len(string) THEN <<word>>
    ELSE IF string[i] = sep
         THEN <<word>> \o split_from(string, sep, i + 1, <<>>)
         ELSE split_from(string, sep, i + 1, Append(word, string[i]))

split(string, sep) == split_from(string, sep, 1, <<>>)

Reverse(seq) == [i \in 1..Len(seq) |-> seq[Len(seq) + 1 - i]]

\* get_package(stmt, ctx)
get_package(stmt, ctx) ==
    LET sub_packages ==
            IF stmt.parents = <<>> THEN <<>>
            ELSE Reverse(SubSeq(stmt.parents, 1, Len(stmt.parents) - 1))
        full_package == split(ctx.directory, "/") \o sub_packages
    IN  join_dot(IF full_package # <<>> /\ full_package[1] = s_src
                 THEN Tail(full_package) ELSE full_package)

\* get_base_type(stmt) for a typedef statement that has a type substatement
RECURSIVE get_base_type(_)
get_base_type(stmt) ==
    LET type_stmt == stmt.type[1] IN
    IF type_stmt.i_typedef_is = "stmt"
    THEN get_base_type(type_stmt.i_typedef[1])
    ELSE type_stmt

IntegerTypes == {s_int8, s_int16, s_int32, s_int64,
                 s_uint8, s_uint16, s_uint32, s_uint64}

LastTwo(string) == SubSeq(string, Len(string) - 1, Len(string))

\* a ladder that is not widened for the unsigned types
integer_type_not_widened(arg) == <<s_long, s_int, s_short, s_byte>>

\* the list integer_type of get_types, after the pop and insert done for an
\* unsigned type
integer_type(arg) ==
    LET ladder == <<s_long, s_int, s_short, s_byte>> IN
    IF SubSeq(arg, 1, 1) = <<"u">>
    THEN <<s_long>> \o SubSeq(ladder, 1, Len(ladder) - 1)
    ELSE ladder

\* the integer branch of get_types: the pair <<netconf, primitive>>
integer_pair(arg, netconf) ==
    LET ladder == integer_type(arg)
        nc == IF SubSeq(arg, 1, 1) = <<"u">>
              THEN s_com_tailf_jnc_YangUI \o SubSeq(arg, 3, Len(arg))
              ELSE netconf
    IN  IF LastTwo(arg) = <<"6", "4">> THEN <<nc, ladder[1]>>
        ELSE IF LastTwo(arg) = <<"3", "2">> THEN <<nc, ladder[2]>>
        ELSE IF LastTwo(arg) = <<"1", "6">> THEN <<nc, ladder[3]>>
        ELSE <<nc, ladder[4]>>

NonIntegerTypes == {s_string, s_boolean, s_enumeration, s_binary, s_bits,
                    s_instance_identifier, s_leafref, s_identityref, s_empty,
                    s_decimal64}

TableTypes == NonIntegerTypes \cup IntegerTypes

\* a table in which binary keeps the name of its wrapper as primitive
forced_primitive_binary_kept(arg, primitive) ==
    IF arg \in {s_string, s_boolean, s_binary} THEN primitive
    ELSE IF arg \in {s_enumeration} THEN s_String
    ELSE IF arg \in {s_bits} THEN s_BigInteger
    ELSE IF arg \in {s_instance_identifier, s_leafref, s_identityref}
         THEN s_Element
    ELSE IF arg \in {s_empty} THEN s_boolean
    ELSE s_BigDecimal

\* the branches of get_types for the non-integer type names of its table:
\* the primitive they leave or force
forced_primitive(arg, primitive) ==
    IF arg \in {s_string, s_boolean} THEN primitive
    ELSE IF arg \in {s_enumeration, s_binary} THEN s_String
    ELSE IF arg \in {s_bits} THEN s_BigInteger
    ELSE IF arg \in {s_instance_identifier, s_leafref, s_identityref}
         THEN s_Element
    ELSE IF arg \in {s_empty} THEN s_boolean
    ELSE s_BigDecimal

Returned(netconf, primitive, out) ==
    [raised |-> "", netconf |-> netconf, primitive |-> primitive, out |-> out]
Raised(exception, out) ==
    [raised |-> exception, netconf |-> <<>>, primitive |-> <<>>, out |-> out]

\* get_types(yang_type, ctx); out carries outputted_warnings and stderr
RECURSIVE get_types(_, _, _)
get_types(stmt, ctx, out) ==
    IF stmt.keyword \in {"leaf", "leaf-list"} /\ stmt.type = <<>>
    THEN Raised("AttributeError", out)       \* None.keyword
    ELSE
    LET yang_type == IF stmt.keyword \in {"leaf", "leaf-list"}
                     THEN stmt.type[1] ELSE stmt
        primitive == capitalize_first(camelize(yang_type.arg))
        netconf == s_com_tailf_jnc_Yang \o primitive
    IN
    IF yang_type.keyword \notin {"type", "typedef"}
    THEN Raised("AssertionError", out)
    ELSE IF yang_type.arg \in TableTypes
    THEN IF yang_type.arg \in IntegerTypes
         THEN LET pair == integer_pair(yang_type.arg, netconf)
              IN  Returned(pair[1], pair[2], out)
         ELSE Returned(netconf, forced_primitive(yang_type.arg, primitive),
                       out)
    ELSE IF yang_type.i_typedef_is = "absent"
    THEN LET type_id == get_package(yang_type, ctx) \o yang_type.arg
         IN  Returned(netconf, primitive,
                      print_warning(NoMsg, type_id, ctx, out))
    ELSE IF yang_type.i_typedef_is = "None"
    THEN Raised("AttributeError", out)       \* get_base_type(None)
    ELSE
    LET typedef == yang_type.i_typedef[1] IN
    IF typedef.type = <<>>
    THEN Raised("AttributeError", out)       \* get_types(None, ctx)
    ELSE
    LET basetype == get_base_type(typedef)
        package == get_package(typedef, ctx)
        typedef_arg == capitalize_first(camelize(yang_type.arg))
        base == get_types(basetype, ctx, out)
    IN  IF base.raised # "" THEN base
        ELSE Returned(package \o <<".">> \o typedef_arg,
                      base.primitive, base.out)

\* ---- the statements handed to the resolver ----
Directories == {s_gen, s_src_gen}

\* where a type statement sits: below leaf x of container c of module m, or
\* below leaf x of module m
TypeParents == {<<s_x, s_c, s_m>>, <<s_x, s_m>>}

\* typedef percent { type uint8; } and typedef foo { type string; }
TypedefPercent ==
    Statement("typedef", s_percent, <<s_m>>,
              <<Statement("type", s_uint8, <<s_percent, s_m>>, <<>>,
                          "None", <<>>)>>,
              "absent", <<>>)

\* typedef my-pct { type percent; } in container sub
TypedefMyPct ==
    Statement("typedef", s_my_pct, <<s_sub, s_m>>,
              <<Statement("type", s_percent, <<s_my_pct, s_sub, s_m>>, <<>>,
                          "stmt", <<TypedefPercent>>)>>,
              "absent", <<>>)

\* typedef addr { type union { ... } }
TypedefAddr ==
    Statement("typedef", s_addr, <<s_m>>,
              <<Statement("type", s_union, <<s_addr, s_m>>, <<>>,
                          "None", <<>>)>>,
              "absent", <<>>)

\* the type statements: every name of the table and union, annotated None by
\* the validator; an alias name with the annotation absent, None or the
\* typedef it resolves to
TypeStatements ==
    {Statement("type", arg, <<s_x, s_m>>, <<>>, "None", <<>>) :
        arg \in TableTypes \cup {s_union}}
    \cup
    {Statement("type", s_foo, parents, <<>>, is, <<>>) :
        parents \in TypeParents, is \in {"absent", "None"}}
    \cup
    {Statement("type", s_my_type, <<s_x, s_m>>, <<>>, is, <<>>) :
        is \in {"absent", "None"}}
    \cup
    {Statement("type", s_percent, <<s_x, s_m>>, <<>>, "stmt",
               <<TypedefPercent>>),
     Statement("type", s_my_pct, <<s_x, s_c, s_m>>, <<>>, "stmt",
               <<TypedefMyPct>>),
     Statement("type", s_m_percent, <<s_x, s_m>>, <<>>, "stmt",
               <<TypedefPercent>>),
     Statement("type", s_addr, <<s_x, s_m>>, <<>>, "stmt",
               <<TypedefAddr>>)}

\* the leaf or leaf-list above a type statement
LeafOf(keyword, type) ==
    Statement(keyword, Head(type.parents), Tail(type.parents), <<type>>,
              "absent", <<>>)

LeafTypes == {s_uint8, s_binary, s_foo}

Requests ==
    TypeStatements
    \cup {LeafOf(kw, t) : kw \in {"leaf", "leaf-list"},
                          t \in {u \in TypeStatements : u.arg \in LeafTypes}}
    \cup {TypedefPercent}

NoRequest == Statement("", <<>>, <<>>, <<>>, "absent", <<>>)
NoResult == [raised |-> "", netconf |-> <<>>, primitive |-> <<>>]

InitTypes ==
    /\ opts \in [debug : BOOLEAN, verbose : BOOLEAN, directory : Directories]
    /\ outputted_warnings = <<>>
    /\ stderr = <<>>
    /\ request = NoRequest
    /\ result = NoResult

\* a caller resolves the types of a statement: get_types(stmt, ctx)
GetTypes(stmt) ==
    LET r == get_types(stmt, opts,
                       [outputted_warnings |-> outputted_warnings,
                        stderr |-> stderr])
    IN  /\ request' = stmt
        /\ result' = [raised |-> r.raised, netconf |-> r.netconf,
                      primitive |-> r.primitive]
        /\ outputted_warnings' = r.out.outputted_warnings
        /\ stderr' = r.out.stderr
        /\ UNCHANGED opts

(***************************************************************************)
(* List method generator                                                   *)
(***************************************************************************)
\* A list statement as ListMethodGenerator sees it.  key: the result of
\* search_one('key'), as a sequence of length 0 or 1 holding the key's arg.
\* leafs: the leaf substatements, in order.  config: for the statement and
\* each of its ancestors, nearest first, the arg of its config substatement,
\* or "absent".
ListStmt(arg, key, leafs, config) ==
    [keyword |-> "list", arg |-> arg, key |-> key, leafs |-> leafs,
     config |-> config]

\* is_config(stmt): the nearest config statement on the way to the root
RECURSIVE is_config(_)
is_config(stmt) ==
    IF stmt.config = <<>> THEN TRUE
    ELSE IF Head(stmt.config) = "absent"
         THEN is_config([stmt EXCEPT !.config = Tail(@)])
         ELSE Head(stmt.config) = "true"

\* stmt.search_one('leaf', k), as a sequence of length 0 or 1
RECURSIVE search_one_leaf_from(_, _, _)
search_one_leaf_from(stmt, k, i) ==
    IF i > Len(stmt.leafs) THEN <<>>
    ELSE IF stmt.leafs[i].arg = k THEN <<stmt.leafs[i]>>
         ELSE search_one_leaf_from(stmt, k, i + 1)

search_one_leaf(stmt, k) == search_one_leaf_from(stmt, k, 1)

Constructors(constructors, out) ==
    [raised |-> "", constructors |-> constructors, out |-> out]
Failed(exception, out) ==
    [raised |-> exception, constructors |-> <<>>, out |-> out]

\* the javadoc2 list of value_constructors, indexed from 0
javadoc2(i) ==
    IF i = 0 THEN ""
    ELSE IF i = 1 THEN "with Strings for the keys."
    ELSE "with primitive Java types."

\* the inner loop of value_constructors: the parameters of constructor i for
\* the keys from position k on
RECURSIVE constructor_parameters(_, _, _, _, _)
constructor_parameters(key_stmts, i, k, ctx, out) ==
    IF k > Len(key_stmts) THEN Constructors(<<>>, out)
    ELSE
    LET key == key_stmts[k]
        Added(param_type, rest) ==
            IF rest.raised # "" THEN rest
            ELSE Constructors(<<<<param_type, key.arg \o s_Value>>>>
                                  \o rest.constructors, rest.out)
        Typed(types) ==
            IF types.raised # "" THEN Failed(types.raised, types.out)
            ELSE Added(IF i = 0 THEN types.netconf
                       ELSE IF i = 1 THEN s_String
                       ELSE types.primitive,
                       constructor_parameters(key_stmts, i, k + 1, ctx,
                                              types.out))
    IN  Typed(get_types(key, ctx, out))

\* filter(lambda k: k.arg != 'string', key_stmts) is not empty
any_key_not_string(key_stmts, ctx, out) ==
    \E k \in 1..Len(key_stmts) : key_stmts[k].arg # s_string

\* the outer loop of value_constructors: constructors i, i+1, .. number-1
RECURSIVE value_constructors_from(_, _, _, _, _)
value_constructors_from(key_stmts, number, i, ctx, out) ==
    IF i >= number THEN Constructors(<<>>, out)
    ELSE
    LET Added(parameters, rest) ==
            IF rest.raised # "" THEN rest
            ELSE Constructors(<<[javadoc |-> javadoc2(i),
                                 parameters |-> parameters]>>
                                  \o rest.constructors, rest.out)
        Built(params) ==
            IF params.raised # "" THEN params
            ELSE Added(params.constructors,
                       value_constructors_from(key_stmts, number, i + 1, ctx,
                                               params.out))
    IN  Built(constructor_parameters(key_stmts, i, 1, ctx, out))

\* ListMethodGenerator.value_constructors
value_constructors(stmt, ctx, out) ==
    IF ~is_config(stmt) THEN Failed("AssertionError", out)
    ELSE IF stmt.key = <<>> THEN Failed("AttributeError", out)  \* None.arg
    ELSE
    LET keys == split(stmt.key[1], " ")
        found == [k \in 1..Len(keys) |-> search_one_leaf(stmt, keys[k])]
    IN
    IF \E k \in 1..Len(keys) : found[k] = <<>>
    THEN Failed("AttributeError", out)                          \* None.arg
    ELSE
    LET key_stmts == [k \in 1..Len(keys) |-> found[k][1]]
        number_of_value_constructors ==
            IF any_key_not_string(key_stmts, ctx, out) THEN 3 ELSE 2
    IN  value_constructors_from(key_stmts, number_of_value_constructors, 0,
                                ctx, out)

\* MethodGenerator.empty_constructor
empty_constructor == [javadoc |-> "Constructor for an empty object.",
                      parameters |-> <<>>]

\* ListMethodGenerator.constructors
constructors(stmt, ctx, out) ==
    IF is_config(stmt) \/ stmt.key # <<>>
    THEN LET AfterEmpty(value) ==
                 IF value.raised # "" THEN value
                 ELSE Constructors(<<empty_constructor>> \o value.constructors,
                                   value.out)
         IN  AfterEmpty(value_constructors(stmt, ctx, out))
    ELSE Constructors(<<empty_constructor>>, out)

\* ---- the lists handed to the generator ----
KeyNames == {s_id, s_name, s_string}

KeyTypes == {s_string, s_uint8, s_percent}

\* type t; below leaf name of list l of module m, where percent is an alias
KeyType(name, arg) ==
    IF arg = s_percent
    THEN Statement("type", arg, <<name, s_l, s_m>>, <<>>, "stmt",
                   <<TypedefPercent>>)
    ELSE Statement("type", arg, <<name, s_l, s_m>>, <<>>, "None", <<>>)

\* leaf name { type t; } in list l of module m
KeyLeaf(name, arg) ==
    Statement("leaf", name, <<s_l, s_m>>, <<KeyType(name, arg)>>,
              "absent", <<>>)

KeyLeafs == {KeyLeaf(name, arg) : name \in KeyNames, arg \in KeyTypes}

\* config of the list and of its module
ConfigChains == {<<"absent", "absent">>, <<"true", "absent">>,
                 <<"false", "absent">>}

\* list l with no key statement, one key leaf or two
ListStmts ==
    {ListStmt(s_l, <<>>, <<a>>, config) :
        a \in KeyLeafs, config \in ConfigChains}
    \cup
    {ListStmt(s_l, <<a.arg>>, <<a>>, config) :
        a \in KeyLeafs, config \in ConfigChains}
    \cup
    {ListStmt(s_l, <<a.arg \o <<" ">> \o b.arg>>, <<a, b>>, config) :
        a \in {x \in KeyLeafs : x.arg = s_id},
        b \in {x \in KeyLeafs : x.arg # s_id},
        config \in ConfigChains}

NoNode == ListStmt(<<>>, <<>>, <<>>, <<>>)
NoConstructors == [raised |-> "", constructors |-> <<>>]

InitList ==
    /\ opts \in [debug : BOOLEAN, verbose : BOOLEAN, directory : Directories]
    /\ outputted_warnings = <<>>
    /\ stderr = <<>>
    /\ node = NoNode
    /\ built = NoConstructors

\* generate_class asks the method generator of a list for its constructors
ListConstructors(stmt) ==
    \E r \in {constructors(stmt, opts,
                          [outputted_warnings |-> outputted_warnings,
                           stderr |-> stderr])} :
        /\ node' = stmt
        /\ built' = [raised |-> r.raised, constructors |-> r.constructors]
        /\ outputted_warnings' = r.out.outputted_warnings
        /\ stderr' = r.out.stderr
        /\ UNCHANGED opts

(***************************************************************************)
(* Access methods of leaf and leaf-list children                            *)
(***************************************************************************)
\* One generated access method: the function of the module that wrote it,
\* the keyword of the statement it was given, and the arguments that tell
\* the methods of one child apart.
Method(method, keyword, op, arg_type) ==
    [method |-> method, keyword |-> keyword, op |-> op,
     arg_type |-> arg_type]

\* access_methods.get(key), as a sequence of length 0 or 1 of positions
Entry(methods, name) ==
    IF \E i \in 1..Len(methods) : methods[i].key = name
    THEN <<CHOOSE i \in 1..Len(methods) : methods[i].key = name>>
    ELSE <<>>

\* a dictionary that keeps every appended method under an entry of its own
append_access_method_ungrouped(methods, name, access_method) ==
    Append(methods, [key |-> name, methods |-> <<access_method>>])

\* JavaClass.append_access_method(key, access_method)
append_access_method(methods, name, access_method) ==
    IF Entry(methods, name) = <<>>
    THEN Append(methods, [key |-> name, methods |-> <<access_method>>])
    ELSE [methods EXCEPT ![Entry(methods, name)[1]].methods =
                             Append(@, access_method)]

RECURSIVE append_all(_, _, _)
append_all(methods, name, list) ==
    IF list = <<>> THEN methods
    ELSE append_all(append_access_method(methods, name, Head(list)), name,
                    Tail(list))

Operations == <<"replace", "merge", "create", "delete">>

\* the setters of a leaf or leaf-list: library type, String and, unless it
\* is String, the primitive type
leaf_setters(kw, type_str1, type_str2) ==
    <<Method("set_leaf_value", kw, "", type_str1),
      Method("set_leaf_value", kw, "", s_String)>>
    \o (IF type_str2 # s_String
        THEN <<Method("set_leaf_value", kw, "", type_str2)>> ELSE <<>>)

\* the methods of a leaf child, in the order they are added
leaf_methods(stmt, key, type_str1, type_str2) ==
    LET optional == ~(key # <<>> /\
                      \E i \in 1..Len(split(key[1], " ")) :
                          split(key[1], " ")[i] = stmt.arg)
    IN  <<Method("access_methods_comment",
                 IF optional THEN "leaf" ELSE "key",
                 IF optional THEN "optional" ELSE "", <<>>),
          Method("get_value", "leaf", "", type_str1)>>
        \o leaf_setters("leaf", type_str1, type_str2)
        \o (IF optional THEN <<Method("unset_value", "leaf", "", <<>>)>>
            ELSE <<>>)
        \o <<Method("add_value", "leaf", "", <<>>)>>
        \o (IF optional
            THEN [i \in 1..4 |-> Method("mark", "leaf", Operations[i],
                                        s_String)]
            ELSE <<>>)

\* the mark methods of a leaf-list child: each operation with the library
\* type and with String
leaf_list_marks(type_str1, type_str2) ==
    [i \in 1..8 |-> Method("mark", "leaf-list", Operations[(i + 1) \div 2],
                           IF i % 2 = 1 THEN type_str1 ELSE s_String)]

\* the methods of a leaf-list child, in the order they are added
leaf_list_methods(stmt, type_str1, type_str2) ==
    <<Method("access_methods_comment", "leaf-list", "", <<>>),
      Method("child_iterator", "leaf-list", "", <<>>)>>
    \o leaf_setters("leaf-list", type_str1, type_str2)
    \o <<Method("delete_stmt", "leaf-list", "", type_str1),
         Method("delete_stmt", "leaf-list", "string", type_str1),
         Method("add_value", "leaf-list", "", <<>>)>>
    \o leaf_list_marks(type_str1, type_str2)

\* generate_child(sub) for a leaf or leaf-list; the children that get a
\* class of their own are walked by the class generator
generate_child(stmt, key, methods, ctx, out) ==
    IF stmt.type = <<>>
    THEN [raised |-> "AttributeError", methods |-> methods, out |-> out]
    ELSE
    LET types == get_types(stmt.type[1], ctx, out) IN
    IF types.raised # ""
    THEN [raised |-> types.raised, methods |-> methods, out |-> types.out]
    ELSE [raised |-> "",
          methods |->
              append_all(methods, stmt.arg,
                  IF stmt.keyword = "leaf"
                  THEN leaf_methods(stmt, key, types.netconf,
                                    types.primitive)
                  ELSE leaf_list_methods(stmt, types.netconf,
                                         types.primitive)),
          out |-> types.out]

\* ---- the children handed to the class generator ----
MaxChildren == 2

ChildNames == {s_x, s_y}
ChildTypes == {s_string, s_uint8, s_binary, s_percent, s_union}

\* leaf or leaf-list name { type t; } in list l of module m
Child(kw, name, arg) ==
    Statement(kw, name, <<s_l, s_m>>, <<KeyType(name, arg)>>, "absent", <<>>)

Children ==
    {Child(kw, name, arg) : kw \in {"leaf", "leaf-list"},
                            name \in ChildNames, arg \in ChildTypes}

InitChild ==
    /\ opts \in [debug : {FALSE}, verbose : BOOLEAN, directory : Directories]
    /\ outputted_warnings = <<>>
    /\ stderr = <<>>
    /\ parent_key \in {<<>>, <<s_x>>}
    /\ access_methods = <<>>
    /\ child = NoRequest
    /\ child_error = ""

\* generate_class walks to the next child of the statement
GenerateChild(stmt) ==
    /\ child_error = ""
    /\ Len(access_methods) < MaxChildren
    /\ Entry(access_methods, stmt.arg) = <<>>
    /\ LET r == generate_child(stmt, parent_key, access_methods, opts,
                               [outputted_warnings |-> outputted_warnings,
                                stderr |-> stderr])
       IN  /\ child' = stmt
           /\ child_error' = r.raised
           /\ access_methods' = r.methods
           /\ outputted_warnings' = r.out.outputted_warnings
           /\ stderr' = r.out.stderr
    /\ UNCHANGED <<opts, parent_key>>

(***************************************************************************)
(* Class generator                                                         *)
(***************************************************************************)
\* A statement as the class generator sees it.  type: search_one('type') as
\* a sequence of length 0 or 1.  i_children: the effective children, empty
\* when the attribute is absent, None or [].  i_target_is: whether the
\* i_target_node attribute is absent, None or a node; i_target: the number
\* of the document the target node lies in (target.top).
Node(keyword, arg, substmts, i_children, type, i_target_is, i_target) ==
    [keyword |-> keyword, arg |-> arg, substmts |-> substmts,
     i_children |-> i_children, type |-> type,
     i_target_is |-> i_target_is, i_target |-> i_target]

\* the statement a type's i_typedef points to, as the class generator sees it
TypedefNode(typedef) ==
    Node("typedef", typedef.arg, <<>>, <<>>, typedef.type, "absent", 0)

\* the documents the validator knows, by number, and their names
Docs == {1, 2, 3}
DocName(d) == IF d = 1 THEN s_m ELSE IF d = 2 THEN s_b ELSE s_t

\* what generation has done so far: the class files written, the
\* augmented_modules dictionary, the warnings, and the exception raised
Generation(files, dict, out, raised) ==
    [written |-> files, augmented |-> dict, out |-> out, raised |-> raised]

\* YangType().defined_types
defined_types ==
    {s_empty, s_int8, s_int16, s_int32, s_int64, s_uint8, s_uint16, s_uint32,
     s_uint64, s_binary, s_bits, s_boolean, s_decimal64, s_enumeration,
     s_identityref, s_instance_identifier, s_leafref, s_string, s_union}

\* extract_names(arg)[1]
extract_names(arg) == capitalize_first(camelize(arg))

\* ClassGenerator.write_to_file: the class of stmt in document top
write_to_file(st, top, stmt) ==
    [st EXCEPT !.written =
         Append(@, [module |-> top, class |-> extract_names(stmt.arg)])]

\* augmented_modules[key] = value
SetItem(dict, name, value) ==
    [k \in DOMAIN dict \cup {name} |-> IF k = name THEN value ELSE dict[k]]

TargetMissingMsg ==
    [text |-> "Target missing from augment statement", key |-> <<>>]

\* expand(children) of generate_class
RECURSIVE expand(_)
expand(children) ==
    IF children = <<>> THEN <<>>
    ELSE children
         \o expand(Head(children).i_children \o Head(children).substmts)
         \o expand(Tail(children))

\* the declared substatements from position i on that are not in the
\* expanded effective children
RECURSIVE not_expanded(_, _, _)
not_expanded(declared, expanded_i_children, i) ==
    IF i > Len(declared) THEN <<>>
    ELSE (IF \A j \in 1..Len(expanded_i_children) :
                 expanded_i_children[j] # declared[i]
          THEN <<declared[i]>> ELSE <<>>)
         \o not_expanded(declared, expanded_i_children, i + 1)

\* a walk that passes every declared substatement
ChildrenToGenerate_unfiltered(stmt) == stmt.i_children \o stmt.substmts

\* the children generate_class passes to generate_child, in order
ChildrenToGenerate(stmt) ==
    stmt.i_children \o not_expanded(stmt.substmts, expand(stmt.i_children), 1)

\* ClassGenerator(stmt, ...).generate() for a statement below a document
\* root, with generate_child for each of its children; top is the name of
\* the document.  Every ClassGenerator starts with a YangType() of its own.
RECURSIVE generate_class(_, _, _, _)
RECURSIVE generate_children(_, _, _, _)
generate_class(stmt, top, ctx, st) ==
    IF stmt.keyword = "augment"
    THEN IF stmt.i_target_is = "absent"
         THEN [st EXCEPT !.out = print_warning(TargetMissingMsg,
                                               s_Target_missing, ctx, @)]
         ELSE IF stmt.i_target_is = "None"
         THEN [st EXCEPT !.raised = "AttributeError"]      \* None.top
         ELSE [st EXCEPT !.augmented =
                   SetItem(@, DocName(stmt.i_target), stmt.i_target)]
    ELSE
    LET type_stmt == stmt.type[1]
        \* the class of the base alias is generated, then the class itself
        Nested(typed, typedef) ==
            LET Written(nested) ==
                    IF nested.raised # "" THEN nested
                    ELSE write_to_file(nested, top, stmt)
            IN  Written(generate_class(TypedefNode(typedef),
                                       typedef.parents[Len(typedef.parents)],
                                       ctx, typed))
        Typed(typed) ==
            IF typed.raised # "" THEN typed
            ELSE IF type_stmt.i_typedef_is = "absent"
            THEN [typed EXCEPT !.raised = "AttributeError"]  \* no i_typedef
            ELSE IF type_stmt.i_typedef_is = "stmt"
                    /\ type_stmt.i_typedef[1].arg \notin defined_types
            THEN Nested(typed, type_stmt.i_typedef[1])
            ELSE write_to_file(typed, top, stmt)
        Resolved(walked, types) ==
            Typed([walked EXCEPT !.out = types.out,
                                 !.raised = types.raised])
        Walked(walked) ==
            IF walked.raised # "" THEN walked
            ELSE IF stmt.keyword # "typedef"
            THEN write_to_file(walked, top, stmt)
            ELSE IF stmt.type = <<>>
            THEN [walked EXCEPT !.raised = "AttributeError"] \* None.keyword
            ELSE Resolved(walked, get_types(type_stmt, ctx, walked.out))
    IN  Walked(generate_children(ChildrenToGenerate(stmt), top, ctx, st))

\* generate_child(sub) for each child in turn, as far as it touches the
\* files, the registry and the warnings
generate_children(children, top, ctx, st) ==
    IF children = <<>> \/ st.raised # "" THEN st
    ELSE
    LET sub == Head(children)
        Resolved(types) ==
            [st EXCEPT !.out = types.out, !.raised = types.raised]
        done ==
            IF sub.keyword \in {"list", "container", "typedef"}
            THEN generate_class(sub, top, ctx, st)
            ELSE IF sub.keyword \in {"leaf", "leaf-list"}
            THEN IF sub.type = <<>>
                 THEN [st EXCEPT !.raised = "AttributeError"]
                 ELSE Resolved(get_types(sub.type[1], ctx, st.out))
            ELSE st
    IN  generate_children(Tail(children), top, ctx, done)

\* the loop of generate_classes over the substatements from position i on
RECURSIVE generate_top_level(_, _, _, _)
generate_top_level(module, i, ctx, st) ==
    IF i > Len(module.substmts) \/ st.raised # "" THEN st
    ELSE generate_top_level(module, i + 1, ctx,
             IF module.substmts[i].keyword
                    \in {"container", "list", "augment", "typedef"}
             THEN generate_class(module.substmts[i], module.arg, ctx, st)
             ELSE st)

\* ClassGenerator(module, ...).generate(): generate_classes
generate_classes(module, ctx, st) ==
    LET Walked(walked) ==
            IF walked.raised # "" THEN walked
            ELSE write_to_file(walked, module.arg, module)
    IN  Walked(generate_top_level(module, 1, ctx, st))

(***************************************************************************)
(* emit                                                                    *)
(***************************************************************************)
\* print_warning(msg, key) without ctx: printed unless the key was printed
print_warning_no_ctx(msg, key, out) ==
    IF key = <<>> \/ \A i \in 1..Len(out.outputted_warnings) :
                         out.outputted_warnings[i] # key
    THEN [outputted_warnings |->
              IF key # <<>> THEN Append(out.outputted_warnings, key)
              ELSE out.outputted_warnings,
          stderr |-> Append(out.stderr, [line |-> "WARNING: ", msg |-> msg])]
    ELSE out

IncompleteMsg(etag) ==
    [text |-> "%s, generated class hierarchy might be incomplete.",
     key |-> etag]
AbortingMsg(etag) == [text |-> "%s, aborting.", key |-> etag]
IgnoringMsg(arg) ==
    [text |-> "Ignoring schema tree rooted at \"%s\" - not a module",
     key |-> arg]
SeveralMsg ==
    [text |-> "Generating code for several modules has not been tested thoroughly.",
     key |-> <<>>]

\* the loop of emit over ctx.errors from position i on: whether self.fatal
\* was called, and the warnings
RECURSIVE check_errors(_, _, _)
check_errors(errs, i, out) ==
    IF i > Len(errs) THEN [fatal |-> FALSE, out |-> out]
    ELSE
    LET etag == errs[i].etag IN
    IF errs[i].is_error
       /\ etag \in {s_MODULE_NOT_FOUND, s_MODULE_NOT_FOUND_REV}
    THEN [fatal |-> TRUE, out |-> out]
    ELSE IF etag \in {s_TYPE_NOT_FOUND, s_FEATURE_NOT_FOUND,
                      s_IDENTITY_NOT_FOUND, s_GROUPING_NOT_FOUND}
    THEN check_errors(errs, i + 1,
                      print_warning_no_ctx(IncompleteMsg(etag), etag, out))
    ELSE [fatal |-> TRUE,
          out |-> print_warning_no_ctx(AbortingMsg(etag), etag, out)]

\* the lists augmented_modules.values() can return: the values in any order
Values(dict) ==
    LET range == {dict[k] : k \in DOMAIN dict}
        n == Cardinality(range)
    IN  {order \in [1..n -> range] :
             \A i, j \in 1..n : order[i] = order[j] => i = j}

\* the number of positions of a list that hold value d
Count(list, d) == Cardinality({i \in 1..Len(list) : list[i] = d})

\* ---- the documents handed to emit ----
Container == Node("container", s_c, <<>>, <<>>, <<>>, "absent", 0)

\* augment "/c" { container c; } with the target annotation absent, None or
\* a node of document d
Augment(is, d) == Node("augment", s_path, <<Container>>, <<>>, <<>>, is, d)

\* container sub { typedef my-pct { type percent; } }
Sub ==
    Node("container", s_sub, <<TypedefNode(TypedefMyPct)>>, <<>>, <<>>,
         "absent", 0)

Module(keyword, d, substmts) ==
    [keyword |-> keyword, arg |-> DocName(d), substmts |-> substmts]

\* the bodies of document 1 (m), of document 2 (b) and of document 3 (t)
Bodies(d) ==
    IF d = 1
    THEN {<<Container>>, <<Augment("absent", 0)>>, <<Augment("None", 0)>>,
          <<Augment("stmt", 2), Augment("stmt", 3)>>,
          <<TypedefNode(TypedefPercent)>>,
          <<TypedefNode(TypedefPercent), Sub>>}
         \cup {<<Augment("stmt", t)>> : t \in Docs}
    ELSE IF d = 2
    THEN {<<Container>>, <<Augment("stmt", 1)>>, <<Augment("stmt", 3)>>}
    ELSE {<<Container>>}

Keywords(d) == IF d = 3 THEN {"module", "submodule"} ELSE {"module"}

ModuleLists == {<<1>>, <<1, 2>>, <<2, 1>>, <<1, 3>>}

Error(etag, is_error) == [etag |-> etag, is_error |-> is_error]

\* the diagnostic the validator leaves for an augment whose target it did
\* not find
NodeErrors(docs) ==
    IF \E d \in Docs : \E i \in 1..Len(docs[d].substmts) :
           /\ docs[d].substmts[i].keyword = "augment"
           /\ docs[d].substmts[i].i_target_is = "None"
    THEN <<Error(s_NODE_NOT_FOUND, TRUE)>>
    ELSE <<>>

\* diagnostics about parts of the documents that are not looked at here
OtherErrors ==
    {<<>>, <<Error(s_TYPE_NOT_FOUND, TRUE)>>,
     <<Error(s_MODULE_NOT_FOUND, TRUE)>>}

NoRun == [ran |-> FALSE, written |-> <<>>, schema |-> <<>>]

InitEmit ==
    /\ opts \in [debug : {FALSE}, verbose : BOOLEAN, directory : {s_gen}]
    /\ outputted_warnings = <<>>
    /\ stderr = <<>>
    /\ \E m1 \in Bodies(1), m2 \in Bodies(2), m3 \in Bodies(3),
          k3 \in Keywords(3) :
           documents = <<Module("module", 1, m1), Module("module", 2, m2),
                         Module(k3, 3, m3)>>
    /\ modules \in ModuleLists
    /\ \E other \in OtherErrors : errors = NodeErrors(documents) \o other
    /\ flags \in [ignore : BOOLEAN, no_schema : BOOLEAN]
    /\ augmented_modules = <<>>
    /\ written = <<>>
    /\ schema = <<>>
    /\ sanitized = [d \in Docs |-> 0]
    /\ pc = "errors"
    /\ pass = 1
    /\ pending = <<>>
    /\ emit_error = ""
    /\ first = NoRun

Out == [outputted_warnings |-> outputted_warnings, stderr |-> stderr]

\* emit looks at ctx.errors
CheckErrors ==
    /\ pc = "errors"
    /\ \E r \in {IF flags.ignore THEN [fatal |-> FALSE, out |-> Out]
                  ELSE check_errors(errors, 1, Out)} :
           /\ outputted_warnings' = r.out.outputted_warnings
           /\ stderr' = r.out.stderr
           /\ pc' = IF r.fatal THEN "stopped" ELSE "modules"
           /\ emit_error' = IF r.fatal THEN "EmitError" ELSE ""
    /\ UNCHANGED <<opts, documents, modules, errors, flags,
                   augmented_modules, written, schema, sanitized, pass,
                   pending, first>>

\* the classes of a document are generated and the results are stored
Generated(st, next_pc) ==
    /\ written' = st.written
    /\ augmented_modules' = st.augmented
    /\ outputted_warnings' = st.out.outputted_warnings
    /\ stderr' = st.out.stderr
    /\ emit_error' = st.raised
    /\ pc' = IF st.raised # "" THEN "stopped" ELSE next_pc

\* the loop over modules reaches a module: its identifiers are sanitized
\* and its classes are generated; then augmented_modules.values() is read
GenerateModule ==
    /\ pc = "modules"
    /\ pass <= Len(modules)
    /\ documents[modules[pass]].keyword = "module"
    /\ \E st \in {generate_classes(documents[modules[pass]], opts,
                       Generation(written, augmented_modules, Out, ""))} :
           /\ sanitized' = [sanitized EXCEPT ![modules[pass]] = @ + 1]
           /\ Generated(st, "augmented")
           /\ pending' \in IF st.raised # "" THEN {<<>>}
                           ELSE Values(st.augmented)
    /\ UNCHANGED <<opts, documents, modules, errors, flags, schema, pass,
                   first>>

\* the loop over modules reaches a document that is not a module
SkipDocument ==
    /\ pc = "modules"
    /\ pass <= Len(modules)
    /\ documents[modules[pass]].keyword # "module"
    /\ \E out \in {print_warning_no_ctx(
                        IgnoringMsg(documents[modules[pass]].arg), <<>>, Out)} :
           /\ outputted_warnings' = out.outputted_warnings
           /\ stderr' = out.stderr
    /\ pass' = pass + 1
    /\ UNCHANGED <<opts, documents, modules, errors, flags,
                   augmented_modules, written, schema, sanitized, pc,
                   pending, emit_error, first>>

\* the classes of the next augmented document are generated
GenerateAugmented ==
    /\ pc = "augmented"
    /\ pending # <<>>
    /\ Generated(generate_classes(documents[Head(pending)], opts,
                     Generation(written, augmented_modules, Out, "")),
                 "augmented")
    /\ pending' = Tail(pending)
    /\ UNCHANGED <<opts, documents, modules, errors, flags, schema,
                   sanitized, pass, first>>

\* the schema of the module and of the augmented documents is written, and
\* augmented_modules is cleared
FinishPass ==
    /\ pc = "augmented"
    /\ pending = <<>>
    /\ IF flags.no_schema THEN UNCHANGED schema
       ELSE \E order \in Values(augmented_modules) :
                schema' = Append(schema, [module |-> modules[pass],
                                          nodes |-> <<modules[pass]>> \o order])
    /\ augmented_modules' = <<>>
    /\ pass' = pass + 1
    /\ pc' = "modules"
    /\ UNCHANGED <<opts, outputted_warnings, stderr, documents, modules,
                   errors, flags, written, sanitized, pending, emit_error,
                   first>>

\* after the loop: the package information of each module is written, for
\* which its identifiers are sanitized, and emit returns
Javadoc ==
    /\ pc = "modules"
    /\ pass > Len(modules)
    /\ sanitized' = [d \in Docs |->
                         IF documents[d].keyword = "module"
                         THEN sanitized[d] + Count(modules, d)
                         ELSE sanitized[d]]
    /\ \E out \in {IF Len(modules) # 1
                    THEN print_warning(SeveralMsg, <<>>, opts, Out)
                    ELSE Out} :
           /\ outputted_warnings' = out.outputted_warnings
           /\ stderr' = out.stderr
    /\ pc' = "done"
    /\ UNCHANGED <<opts, documents, modules, errors, flags,
                   augmented_modules, written, schema, pass, pending,
                   emit_error, first>>

\* the generator is run again on the same input, with the registries and
\* the list of warnings reset
RunAgain ==
    /\ pc = "done"
    /\ ~first.ran
    /\ first' = [ran |-> TRUE, written |-> written, schema |-> schema]
    /\ outputted_warnings' = <<>>
    /\ stderr' = <<>>
    /\ augmented_modules' = <<>>
    /\ written' = <<>>
    /\ schema' = <<>>
    /\ sanitized' = [d \in Docs |-> 0]
    /\ pc' = "errors"
    /\ pass' = 1
    /\ UNCHANGED <<opts, documents, modules, errors, flags, pending,
                   emit_error>>

(***************************************************************************)
(* Typedef method generator                                                *)
(***************************************************************************)
\* A typedef statement as TypedefMethodGenerator sees it: the statement and
\* what search('enum'), search('pattern'), search_one('range') and
\* search('bit') find below its type statement (the args, in order).
TypedefStmt(stmt, enum, pattern, range, bit) ==
    [stmt |-> stmt, enum |-> enum, pattern |-> pattern, range |-> range,
     bit |-> bit]

\* TypedefMethodGenerator.__init__: the attributes is_string and needs_check
is_string(t) == t.stmt.type[1].arg \in {s_string, s_enumeration}
needs_check(t) == TRUE

\* one constructor or setter of the typedef class: the type of its value
\* parameter, the javadoc line that tells the overloads apart, and whether
\* its body ends with check()
Overload(parameter, javadoc, check) ==
    [parameter |-> parameter, javadoc |-> javadoc, check |-> check]

Overloads(raised, list, out) ==
    [raised |-> raised, list |-> list, out |-> out]

\* TypedefMethodGenerator.constructors()
typedef_constructors(t, ctx, out) ==
    LET Built(types) ==
            IF types.raised # "" THEN Overloads(types.raised, <<>>, types.out)
            ELSE Overloads("",
                     [i \in 1..(IF is_string(t) THEN 1 ELSE 2) |->
                         IF i = 1
                         THEN Overload(s_String, "from a string",
                                       needs_check(t))
                         ELSE Overload(types.primitive, "from a primitive",
                                       needs_check(t))],
                     types.out)
    IN  Built(get_types(t.stmt.type[1], ctx, out))

\* TypedefMethodGenerator.setters()
typedef_setters(t, ctx, out) ==
    LET Built(types) ==
            IF types.raised # "" THEN Overloads(types.raised, <<>>, types.out)
            ELSE Overloads("",
                     [i \in 1..(IF is_string(t) THEN 1 ELSE 2) |->
                         IF i = 1
                         THEN Overload(s_String, "using a string value",
                                       needs_check(t))
                         ELSE Overload(types.primitive, "using a primitive",
                                       needs_check(t))],
                     types.out)
    IN  Built(get_types(t.stmt.type[1], ctx, out))

\* TypedefMethodGenerator.checker(): a list with the check method, given by
\* the lines of its body, or the empty list
checker(t) ==
    IF needs_check(t)
    THEN <<(IF t.enum # <<>>
            THEN <<[line |-> "boolean e = false;", arg |-> <<>>]>>
                 \o [i \in 1..Len(t.enum) |->
                        [line |-> "e |= enumeration", arg |-> t.enum[i]]]
                 \o <<[line |-> "throwException( !e );", arg |-> <<>>]>>
            ELSE <<>>)
           \o
           (IF t.pattern # <<>>
            THEN IF Len(t.pattern) = 1
                 THEN <<[line |-> "pattern", arg |-> t.pattern[1]]>>
                 ELSE <<[line |-> "java.lang.String[] regexs = {",
                         arg |-> <<>>]>>
                      \o [i \in 1..Len(t.pattern) |->
                             [line |-> "regex", arg |-> t.pattern[i]]]
                      \o <<[line |-> "};", arg |-> <<>>],
                           [line |-> "pattern(regexs);", arg |-> <<>>]>>
            ELSE <<>>)>>
    ELSE <<>>

\* ---- the typedefs handed to the class generator ----
\* typedef name { type arg; } in module m
Typedef(name, arg) ==
    Statement("typedef", name, <<s_m>>,
              <<Statement("type", arg, <<name, s_m>>, <<>>, "None", <<>>)>>,
              "absent", <<>>)

\* typedef name { type arg; } in module m, where arg names the typedef target
TypedefOf(name, arg, target) ==
    Statement("typedef", name, <<s_m>>,
              <<Statement("type", arg, <<name, s_m>>, <<>>, "stmt",
                          <<target>>)>>,
              "absent", <<>>)

Patterns == {<<>>, <<s_x>>, <<s_x, s_y>>}

TypedefStmts ==
    {TypedefStmt(Typedef(s_name, s_string), <<>>, p, FALSE, <<>>) :
        p \in Patterns}
    \cup
    {TypedefStmt(Typedef(s_t, s_enumeration), e, <<>>, FALSE, <<>>) :
        e \in {<<s_x>>, <<s_x, s_y>>}}
    \cup
    {TypedefStmt(Typedef(s_percent, s_uint8), <<>>, <<>>, r, <<>>) :
        r \in BOOLEAN}
    \cup
    {TypedefStmt(Typedef(s_b, s_bits), <<>>, <<>>, FALSE, <<s_x>>)}
    \cup
    {TypedefStmt(Typedef(s_t, arg), <<>>, <<>>, FALSE, <<>>) :
        arg \in {s_binary, s_boolean, s_decimal64, s_leafref, s_union}}
    \cup
    {TypedefStmt(TypedefOf(s_my_pct, s_percent, TypedefPercent),
                 <<>>, <<>>, r, <<>>) : r \in BOOLEAN}
    \cup
    {TypedefStmt(TypedefOf(s_id, s_name, Typedef(s_name, s_string)),
                 <<>>, p, FALSE, <<>>) : p \in Patterns}
    \cup
    {TypedefStmt(TypedefOf(s_t, s_addr, TypedefAddr),
                 <<>>, <<>>, FALSE, <<>>)}

NoTypedef == TypedefStmt(NoRequest, <<>>, <<>>, FALSE, <<>>)
NoClass == [raised |-> "", constructors |-> <<>>, access_methods |-> <<>>]

InitTypedef ==
    /\ opts \in [debug : BOOLEAN, verbose : BOOLEAN, directory : Directories]
    /\ outputted_warnings = <<>>
    /\ stderr = <<>>
    /\ alias_stmt = NoTypedef
    /\ alias_class = NoClass

\* generate_class for a typedef statement: the constructors, the setters
\* under the keys '0', '1', and the checker under the key 'check'
GenerateTypedef(t) ==
    \E c \in {typedef_constructors(t, opts,
                  [outputted_warnings |-> outputted_warnings,
                   stderr |-> stderr])} :
    \E s \in {typedef_setters(t, opts, c.out)} :
        /\ alias_stmt' = t
        /\ alias_class' =
               IF c.raised # ""
               THEN [raised |-> c.raised, constructors |-> <<>>,
                     access_methods |-> <<>>]
               ELSE IF s.raised # ""
               THEN [raised |-> s.raised, constructors |-> c.list,
                     access_methods |-> <<>>]
               ELSE [raised |-> "", constructors |-> c.list,
                     access_methods |->
                         append_access_method(
                             [i \in 1..Len(s.list) |->
                                 [key |-> IF i = 1 THEN "0" ELSE "1",
                                  methods |-> <<s.list[i]>>]],
                             "check", checker(t))]
        /\ outputted_warnings' = s.out.outputted_warnings
        /\ stderr' = s.out.stderr
        /\ UNCHANGED opts

(***************************************************************************)
(* The walk of generate_class over the children of a statement             *)
(***************************************************************************)
\* leaf name; every statement of a tree has a name of its own, so that two
\* statements are the same object exactly when they are equal
WalkLeaf(name) == Node("leaf", name, <<>>, <<>>, <<>>, "absent", 0)

\* container sub { leaf b; }, with its effective children
WalkSub ==
    Node("container", s_sub, <<WalkLeaf(s_b)>>, <<WalkLeaf(s_b)>>, <<>>,
         "absent", 0)

\* container name;
WalkName == Node("container", s_name, <<>>, <<>>, <<>>, "absent", 0)

\* uses t;
WalkUses == Node("uses", s_t, <<>>, <<>>, <<>>, "absent", 0)

\* sequences without repetition of at most n of the given statements
RECURSIVE Arrangements(_, _)
Arrangements(nodes, n) ==
    IF n = 0 THEN {<<>>}
    ELSE LET shorter == Arrangements(nodes, n - 1) IN
         shorter \cup
         UNION {{Append(s, x) :
                     x \in {y \in nodes : \A i \in DOMAIN s : s[i] # y}} :
                s \in shorter}

\* what the validator hands over for container c: the declared
\* substatements and the effective children (a uses statement is replaced
\* by the leaf y it brings in; leaf b of container sub may be listed in both)
WalkDeclared ==
    {<<>>, <<WalkLeaf(s_x)>>, <<WalkLeaf(s_x), WalkSub>>,
     <<WalkSub, WalkLeaf(s_x)>>, <<WalkUses, WalkLeaf(s_x)>>,
     <<WalkLeaf(s_x), WalkSub, WalkLeaf(s_b)>>,
     <<WalkLeaf(s_b), WalkUses>>}

WalkEffective ==
    Arrangements({WalkLeaf(s_x), WalkLeaf(s_y), WalkSub, WalkName}, 3)

WalkNodes ==
    {Node("container", s_c, declared, effective, <<>>, "absent", 0) :
        declared \in WalkDeclared, effective \in WalkEffective}

NoWalk == Node("", <<>>, <<>>, <<>>, <<>>, "absent", 0)

\* the fields generate_class collects: generate_child returns the name of a
\* container and nothing for any other statement
RECURSIVE fields_of(_)
fields_of(children) ==
    IF children = <<>> THEN <<>>
    ELSE (IF Head(children).keyword = "container"
          THEN <<Head(children).arg>> ELSE <<>>)
         \o fields_of(Tail(children))

\* MethodGenerator.support_method(fields) for a container or list: the
\* lines of the body of addChild, the conditional lines given by the word
\* they begin with and the field they assign
support_method(fields) ==
    <<[line |-> "super.addChild(child);", cond |-> "", field |-> <<>>]>>
    \o [k \in 1..Len(fields) |->
           LET i == Len(fields) - k IN
           [line |-> "if (child instanceof",
            cond |-> IF i > 0 THEN "else " ELSE "",
            field |-> fields[i + 1]]]

InitWalk ==
    /\ walk_stmt \in WalkNodes
    /\ passed = <<>>
    /\ walk_done = FALSE
    /\ support_methods = <<>>

\* generate_class(walk_stmt): the statements it passes to generate_child
\* and the support method it adds to the class
WalkChildren ==
    /\ ~walk_done
    /\ passed' = ChildrenToGenerate(walk_stmt)
    /\ support_methods' =
           <<support_method(fields_of(ChildrenToGenerate(walk_stmt)))>>
    /\ walk_done' = TRUE
    /\ UNCHANGED walk_stmt

(***************************************************************************)
(* The body of a class: its access methods, rendered                       *)
(***************************************************************************)
MaxAppends == 4

\* the keys and the access methods handed to append_access_method
AppendKeys == {s_x, s_y}
AppendMethods ==
    {Method("get_value", "leaf", "", <<>>),
     Method("add_value", "leaf", "", <<>>)}

\* flatten(l) for the values of the access_methods dictionary: the lists of
\* methods, one after the other in the order of the dictionary
RECURSIVE flatten(_)
flatten(l) ==
    IF l = <<>> THEN <<>> ELSE Head(l).methods \o flatten(Tail(l))

\* a line of the body: a method, the empty line that follows it, the
\* serialVersionUID field or the closing brace
Line(kind, method) == [kind |-> kind, method |-> method]
NoMethod == Method("", "", "", <<>>)

RECURSIVE method_lines(_)
method_lines(list) ==
    IF list = <<>> THEN <<>>
    ELSE <<Line("method", Head(list)), Line("", NoMethod)>>
         \o method_lines(Tail(list))

\* JavaClass.get_body() of a class with superclass YangElement that holds
\* access methods only
get_body(methods) ==
    <<Line("serialVersionUID", NoMethod), Line("", NoMethod)>>
    \o method_lines(flatten(methods))
    \o <<Line("}", NoMethod)>>

InitBody ==
    /\ access_methods = <<>>
    /\ appends = <<>>
    /\ body = <<>>
    /\ body_is = "None"

\* JavaClass.append_access_method(key, access_method), called while the
\* children of the statement are walked
AppendAccessMethod(name, access_method) ==
    /\ body_is = "None"
    /\ Len(appends) < MaxAppends
    /\ access_methods' = append_access_method(access_methods, name,
                                              access_method)
    /\ appends' = Append(appends, [key |-> name, method |-> access_method])
    /\ UNCHANGED <<body, body_is>>

\* JavaClass.get_body(), called when the class is written
GetBody ==
    /\ body_is = "None"
    /\ body' = get_body(access_methods)
    /\ body_is' = "list"
    /\ UNCHANGED <<access_methods, appends>>

(***************************************************************************)
(* Specifications                                                          *)
(***************************************************************************)
IdleOrderedSet ==
    /\ heap = <<>>
    /\ map = {}
    /\ link = (END :> [PREV |-> END, NEXT |-> END])
    /\ calls = <<>>

IdleIdentifiers ==
    /\ stmts = <<>>
    /\ passes = 0
    /\ before = <<>>

IdleTypes ==
    /\ opts = [debug |-> FALSE, verbose |-> FALSE, directory |-> s_gen]
    /\ outputted_warnings = <<>>
    /\ stderr = <<>>
    /\ request = NoRequest
    /\ result = NoResult

IdleList ==
    /\ node = NoNode
    /\ built = NoConstructors

IdleChild ==
    /\ parent_key = <<>>
    /\ access_methods = <<>>
    /\ child = NoRequest
    /\ child_error = ""

IdleEmit ==
    /\ documents = <<>>
    /\ modules = <<>>
    /\ errors = <<>>
    /\ flags = [ignore |-> FALSE, no_schema |-> FALSE]
    /\ augmented_modules = <<>>
    /\ written = <<>>
    /\ schema = <<>>
    /\ sanitized = <<>>
    /\ pc = ""
    /\ pass = 0
    /\ pending = <<>>
    /\ emit_error = ""
    /\ first = NoRun

IdleTypedef ==
    /\ alias_stmt = NoTypedef
    /\ alias_class = NoClass

IdleWalk ==
    /\ walk_stmt = NoWalk
    /\ passed = <<>>
    /\ walk_done = FALSE
    /\ support_methods = <<>>

IdleBody ==
    /\ appends = <<>>
    /\ body = <<>>
    /\ body_is = "None"

IdleMethods ==
    /\ parent_key = <<>>
    /\ child = NoRequest
    /\ child_error = ""

IdleRemovals ==
    /\ ops = 0
    /\ popped = NoPop

IdleRequest ==
    /\ request = NoRequest
    /\ result = NoResult

NextOrderedSet ==
    \/ \E name \in ElementNames, value \in ElementValues :
           NewJavaValue(name, value) /\ UNCHANGED <<idVars, tyVars, lsVars, chVars, emVars, tdVars, wkVars, bdVars, rmVars>>
    \/ \E item \in Items : add(item) /\ UNCHANGED <<idVars, tyVars, lsVars, chVars, emVars, tdVars, wkVars, bdVars, rmVars>>

StartOrderedSet == InitOrderedSet /\ IdleIdentifiers /\ IdleTypes /\ IdleList
    /\ IdleChild /\ IdleEmit
    /\ IdleTypedef
    /\ IdleWalk
    /\ IdleBody
    /\ IdleRemovals

SpecOrderedSet == StartOrderedSet /\ [][NextOrderedSet]_vars

NextIdentifiers == Sanitize /\ UNCHANGED <<osVars, tyVars, lsVars, chVars, emVars, tdVars, wkVars, bdVars, rmVars>>

StartIdentifiers == InitIdentifiers /\ IdleOrderedSet /\ IdleTypes /\ IdleList
    /\ IdleChild /\ IdleEmit
    /\ IdleTypedef
    /\ IdleWalk
    /\ IdleBody
    /\ IdleRemovals

SpecIdentifiers == StartIdentifiers /\ [][NextIdentifiers]_vars

NextTypes ==
    \E stmt \in Requests : GetTypes(stmt) /\ UNCHANGED <<osVars, idVars, lsVars, chVars, emVars, tdVars, wkVars, bdVars, rmVars>>

StartTypes == InitTypes /\ IdleOrderedSet /\ IdleIdentifiers /\ IdleList
    /\ IdleChild /\ IdleEmit
    /\ IdleTypedef
    /\ IdleWalk
    /\ IdleBody
    /\ IdleRemovals

SpecTypes == StartTypes /\ [][NextTypes]_vars

NextList ==
    \E stmt \in ListStmts :
        ListConstructors(stmt)
        /\ UNCHANGED <<osVars, idVars, request, result, chVars, emVars, tdVars, wkVars, bdVars, rmVars>>

StartList ==
    InitList /\ IdleOrderedSet /\ IdleIdentifiers /\ IdleRequest /\ IdleChild
    /\ IdleEmit
    /\ IdleTypedef
    /\ IdleWalk
    /\ IdleBody
    /\ IdleRemovals

SpecList == StartList /\ [][NextList]_vars

NextChild ==
    \E stmt \in Children :
        GenerateChild(stmt)
        /\ UNCHANGED <<osVars, idVars, request, result, lsVars, emVars, tdVars, wkVars, bdVars, rmVars>>

StartChild ==
    InitChild /\ IdleOrderedSet /\ IdleIdentifiers /\ IdleRequest /\ IdleList
    /\ IdleEmit
    /\ IdleTypedef
    /\ IdleWalk
    /\ IdleBody
    /\ IdleRemovals

SpecChild == StartChild /\ [][NextChild]_vars

emitOthers == <<osVars, idVars, request, result, lsVars, chVars, tdVars, wkVars, bdVars, rmVars>>

NextEmit ==
    \/ CheckErrors /\ UNCHANGED emitOthers
    \/ GenerateModule /\ UNCHANGED emitOthers
    \/ SkipDocument /\ UNCHANGED emitOthers
    \/ GenerateAugmented /\ UNCHANGED emitOthers
    \/ FinishPass /\ UNCHANGED emitOthers
    \/ Javadoc /\ UNCHANGED emitOthers
    \/ RunAgain /\ UNCHANGED emitOthers

StartEmit ==
    InitEmit /\ IdleOrderedSet /\ IdleIdentifiers /\ IdleRequest /\ IdleList
    /\ IdleChild
    /\ IdleTypedef
    /\ IdleWalk
    /\ IdleBody
    /\ IdleRemovals

SpecEmit == StartEmit /\ [][NextEmit]_vars

NextTypedef ==
    \E t \in TypedefStmts :
        GenerateTypedef(t)
        /\ UNCHANGED <<osVars, idVars, request, result, lsVars, chVars, emVars, wkVars, bdVars, rmVars>>

StartTypedef ==
    InitTypedef /\ IdleOrderedSet /\ IdleIdentifiers /\ IdleRequest
    /\ IdleList /\ IdleChild /\ IdleEmit
    /\ IdleWalk
    /\ IdleBody
    /\ IdleRemovals

SpecTypedef == StartTypedef /\ [][NextTypedef]_vars

NextWalk ==
    WalkChildren
    /\ UNCHANGED <<osVars, idVars, tyVars, lsVars, chVars, emVars, tdVars, bdVars, rmVars>>

StartWalk ==
    InitWalk /\ IdleOrderedSet /\ IdleIdentifiers /\ IdleTypes /\ IdleList
    /\ IdleChild /\ IdleEmit /\ IdleTypedef
    /\ IdleBody
    /\ IdleRemovals

SpecWalk == StartWalk /\ [][NextWalk]_vars

NextBody ==
    \/ \E name \in AppendKeys, access_method \in AppendMethods :
           AppendAccessMethod(name, access_method)
           /\ UNCHANGED <<osVars, idVars, tyVars, lsVars, parent_key, child,
                          child_error, emVars, tdVars, wkVars, rmVars>>
    \/ GetBody
        /\ UNCHANGED <<osVars, idVars, tyVars, lsVars, parent_key, child,
                       child_error, emVars, tdVars, wkVars, rmVars>>

StartBody ==
    InitBody /\ IdleOrderedSet /\ IdleIdentifiers /\ IdleTypes /\ IdleList
    /\ IdleMethods /\ IdleEmit /\ IdleTypedef /\ IdleWalk
    /\ IdleRemovals

SpecBody == StartBody /\ [][NextBody]_vars

NextLinkedSet ==
    \/ \E item \in LinkedItems :
           add(item) /\ UNCHANGED <<rmVars, idVars, tyVars, lsVars, chVars,
                                    emVars, tdVars, wkVars, bdVars>>
    \/ \E item \in LinkedItems :
           add_first(item) /\ UNCHANGED <<idVars, tyVars, lsVars, chVars, emVars,
                                         tdVars, wkVars, bdVars>>
    \/ \E item \in LinkedItems :
           discard(item) /\ UNCHANGED <<idVars, tyVars, lsVars, chVars, emVars,
                                         tdVars, wkVars, bdVars>>
    \/ \E last \in BOOLEAN :
           pop(last) /\ UNCHANGED <<idVars, tyVars, lsVars, chVars, emVars,
                                         tdVars, wkVars, bdVars>>

StartLinkedSet ==
    InitLinkedSet /\ IdleIdentifiers /\ IdleTypes /\ IdleList /\ IdleChild
    /\ IdleEmit /\ IdleTypedef /\ IdleWalk /\ IdleBody

SpecLinkedSet == StartLinkedSet /\ [][NextLinkedSet]_vars

(***************************************************************************)
(* Properties                                                              *)
(***************************************************************************)
\* the items of a sequence, each kept at its first occurrence only, where
\* two items are the same value when they compare equal
RECURSIVE FirstOccurrences(_, _)
FirstOccurrences(seq, seen) ==
    IF seq = <<>> THEN <<>>
    ELSE IF \E x \in seen : Eq(x, Head(seq))
         THEN FirstOccurrences(Tail(seq), seen)
         ELSE <<Head(seq)>> \o FirstOccurrences(Tail(seq), seen \cup {Head(seq)})

\* C1: after any sequence of add calls, iterating the set yields each distinct
\* value exactly once, in the order of its first add (so adding a value that
\* is already present changes neither its position nor the length).
C1_FirstAddOrder ==
    /\ Iter = FirstOccurrences(calls, {})
    /\ SetLen = Len(FirstOccurrences(calls, {}))

\* C2: the set holds no two distinct objects that are equal field by field:
\* adding a code element equal to a member leaves the set unchanged.
C2_NoValueDuplicates ==
    \A a, b \in map : Eq(a, b) => a = b

\* C3: make_valid_identifiers is idempotent: a run on a tree that has already
\* been sanitized leaves every statement unchanged.
C3_Idempotent ==
    passes >= 2 => stmts = before

\* C4: after sanitizing, no statement outside the immutable keywords is named
\* like a Java reserved word or a java.lang class.
C4_NoBuiltInName ==
    passes >= 1 =>
        \A n \in StmtIds :
            stmts[n].keyword \notin immutable_stmts =>
                stmts[n].arg \notin java_built_in

\* the statement whose type name get_types looks at: the type below a leaf
\* or leaf-list, else the statement itself
Target ==
    IF request.keyword \in {"leaf", "leaf-list"} /\ request.type # <<>>
    THEN request.type[1] ELSE request

Called == request # NoRequest

\* C5: get_types never raises: every call, also one for an alias reference
\* whose i_typedef annotation is absent or None, returns a pair.
C5_NeverRaises ==
    Called => result.raised = ""

Unresolved ==
    /\ Called
    /\ Target.keyword = "type"
    /\ Target.arg \notin TableTypes \cup {s_union}
    /\ Target.i_typedef_is \in {"absent", "None"}

\* C6: for a type name that is not a builtin and was not resolved to an
\* alias, the pair get_types returns is the string pair
\* (com.tailf.jnc.YangString, String), whatever the name is.
C6_FallbackIsStringPair ==
    (Unresolved /\ result.raised = "") =>
        /\ result.netconf = s_com_tailf_jnc_Yang \o s_String
        /\ result.primitive = s_String

\* the number of warning lines printed for key
Warnings(key) ==
    Cardinality({i \in 1..Len(stderr) : stderr[i].msg.key = key})

\* C7: every unresolved type identity that was attempted has caused exactly
\* one warning, and no warning key has been reported twice.
C7_OneWarningPerIdentity ==
    /\ \A i \in 1..Len(stderr) : Warnings(stderr[i].msg.key) = 1
    /\ Unresolved => Warnings(get_package(Target, opts) \o Target.arg) = 1

\* <<library type, primitive type>> of the signed and unsigned integer types
IntegerLadder ==
    <<"i","n","t","8">> :>
        <<<<"c","o","m",".","t","a","i","l","f",".","j","n","c",".","Y","a","n","g","I","n","t","8">>,
          <<"b","y","t","e">>>> @@
    <<"i","n","t","1","6">> :>
        <<<<"c","o","m",".","t","a","i","l","f",".","j","n","c",".","Y","a","n","g","I","n","t","1","6">>,
          <<"s","h","o","r","t">>>> @@
    <<"i","n","t","3","2">> :>
        <<<<"c","o","m",".","t","a","i","l","f",".","j","n","c",".","Y","a","n","g","I","n","t","3","2">>,
          <<"i","n","t">>>> @@
    <<"i","n","t","6","4">> :>
        <<<<"c","o","m",".","t","a","i","l","f",".","j","n","c",".","Y","a","n","g","I","n","t","6","4">>,
          <<"l","o","n","g">>>> @@
    <<"u","i","n","t","8">> :>
        <<<<"c","o","m",".","t","a","i","l","f",".","j","n","c",".","Y","a","n","g","U","I","n","t","8">>,
          <<"s","h","o","r","t">>>> @@
    <<"u","i","n","t","1","6">> :>
        <<<<"c","o","m",".","t","a","i","l","f",".","j","n","c",".","Y","a","n","g","U","I","n","t","1","6">>,
          <<"i","n","t">>>> @@
    <<"u","i","n","t","3","2">> :>
        <<<<"c","o","m",".","t","a","i","l","f",".","j","n","c",".","Y","a","n","g","U","I","n","t","3","2">>,
          <<"l","o","n","g">>>>

\* C8: int8, int16, int32, int64 resolve to byte, short, int, long with
\* library type com.tailf.jnc.YangInt<N>; uint8, uint16, uint32 resolve to
\* short, int, long with library type com.tailf.jnc.YangUInt<N>.
C8_IntegerLadder ==
    (Called /\ Target.arg \in DOMAIN IntegerLadder) =>
        /\ result.raised = ""
        /\ <<result.netconf, result.primitive>> = IntegerLadder[Target.arg]

\* an unsigned type was resolved to the signed primitive one width up
C8_Witness ==
    /\ Called
    /\ Target.arg = s_uint16
    /\ result.primitive = s_int
    /\ result.netconf = s_com_tailf_jnc_YangUI \o <<"n","t","1","6">>

\* C9: uint64 resolves without raising, to a primitive that is not the signed
\* 64-bit long that int64 and uint32 resolve to.
C9_UInt64NotTruncated ==
    (Called /\ Target.arg = s_uint64) =>
        /\ result.raised = ""
        /\ result.primitive # s_long

\* <<library type, primitive type>> of the other type names of the table
NonIntegerTable ==
    <<"s","t","r","i","n","g">> :>
        <<<<"c","o","m",".","t","a","i","l","f",".","j","n","c",".","Y","a","n","g","S","t","r","i","n","g">>,
          <<"S","t","r","i","n","g">>>> @@
    <<"b","o","o","l","e","a","n">> :>
        <<<<"c","o","m",".","t","a","i","l","f",".","j","n","c",".","Y","a","n","g","B","o","o","l","e","a","n">>,
          <<"B","o","o","l","e","a","n">>>> @@
    <<"e","n","u","m","e","r","a","t","i","o","n">> :>
        <<<<"c","o","m",".","t","a","i","l","f",".","j","n","c",".","Y","a","n","g","E","n","u","m","e","r","a","t","i","o","n">>,
          <<"S","t","r","i","n","g">>>> @@
    <<"b","i","n","a","r","y">> :>
        <<<<"c","o","m",".","t","a","i","l","f",".","j","n","c",".","Y","a","n","g","B","i","n","a","r","y">>,
          <<"S","t","r","i","n","g">>>> @@
    <<"b","i","t","s">> :>
        <<<<"c","o","m",".","t","a","i","l","f",".","j","n","c",".","Y","a","n","g","B","i","t","s">>,
          <<"B","i","g","I","n","t","e","g","e","r">>>> @@
    <<"i","n","s","t","a","n","c","e","-","i","d","e","n","t","i","f","i","e","r">> :>
        <<<<"c","o","m",".","t","a","i","l","f",".","j","n","c",".","Y","a","n","g","I","n","s","t","a","n","c","e","I","d","e","n","t","i","f","i","e","r">>,
          <<"E","l","e","m","e","n","t">>>> @@
    <<"l","e","a","f","r","e","f">> :>
        <<<<"c","o","m",".","t","a","i","l","f",".","j","n","c",".","Y","a","n","g","L","e","a","f","r","e","f">>,
          <<"E","l","e","m","e","n","t">>>> @@
    <<"i","d","e","n","t","i","t","y","r","e","f">> :>
        <<<<"c","o","m",".","t","a","i","l","f",".","j","n","c",".","Y","a","n","g","I","d","e","n","t","i","t","y","r","e","f">>,
          <<"E","l","e","m","e","n","t">>>> @@
    <<"e","m","p","t","y">> :>
        <<<<"c","o","m",".","t","a","i","l","f",".","j","n","c",".","Y","a","n","g","E","m","p","t","y">>,
          <<"b","o","o","l","e","a","n">>>> @@
    <<"d","e","c","i","m","a","l","6","4">> :>
        <<<<"c","o","m",".","t","a","i","l","f",".","j","n","c",".","Y","a","n","g","D","e","c","i","m","a","l","6","4">>,
          <<"B","i","g","D","e","c","i","m","a","l">>>>

\* C10: string, boolean, enumeration, binary, bits, instance-identifier,
\* leafref, identityref, empty and decimal64 resolve to the pair of the table:
\* library type com.tailf.jnc.Yang plus the capitalized camel-cased name, and
\* primitive String, Boolean, String, String, BigInteger, Element, Element,
\* Element, boolean, BigDecimal.
C10_NonIntegerTable ==
    (Called /\ Target.arg \in DOMAIN NonIntegerTable) =>
        /\ result.raised = ""
        /\ <<result.netconf, result.primitive>> = NonIntegerTable[Target.arg]

\* a hyphenated name and a forced primitive were resolved
C10_Witness ==
    /\ Called
    /\ Target.arg = s_instance_identifier
    /\ result.primitive = s_Element
    /\ result.netconf = s_com_tailf_jnc_Yang \o
           <<"I","n","s","t","a","n","c","e","I","d","e","n","t","i","f","i","e","r">>

\* the typedef a type statement was resolved to
Alias == Target.i_typedef[1]

\* C11: for a type reference resolved to an alias, through a chain of any
\* length, get_types returns the package of the alias, a dot and the
\* capitalized alias name as library type, and the primitive of the builtin
\* type at the end of the chain as primitive type.
C11_AliasPair ==
    (Called /\ Target.keyword = "type" /\ Target.i_typedef_is = "stmt") =>
        /\ result.raised = ""
        /\ result.netconf =
               get_package(Alias, opts) \o <<".">> \o
               capitalize_first(camelize(Alias.arg))
        /\ get_base_type(Alias).arg \in DOMAIN IntegerLadder =>
               result.primitive = IntegerLadder[get_base_type(Alias).arg][2]

\* the key leafs of the list last given to the generator
KeyStmts ==
    LET keys == split(node.key[1], " ")
    IN  [k \in 1..Len(keys) |-> search_one_leaf(node, keys[k])[1]]

\* the primitive type the resolver gives key leaf k
KeyPrimitive(k) ==
    get_types(KeyStmts[k], opts,
              [outputted_warnings |-> <<>>, stderr |-> <<>>]).primitive

\* the key-based constructors that were returned
KeyConstructors == Tail(built.constructors)

\* C12: a list whose key leafs are all text-typed gets exactly two key-based
\* constructors (library-typed, string-typed); a list with at least one key
\* leaf of non-text primitive type gets exactly three (library-typed,
\* string-typed, primitive-typed).
C12_KeyConstructorCount ==
    (node # NoNode /\ node.key # <<>> /\ built.raised = "") =>
        /\ Len(KeyConstructors) =
               IF \E k \in 1..Len(KeyStmts) : KeyPrimitive(k) # s_String
               THEN 3 ELSE 2
        /\ \A k \in 1..Len(KeyStmts) :
               KeyConstructors[2].parameters[k][1] = s_String

\* C20: for a list that carries a key statement or is configuration data,
\* constructors completes without error and returns the no-argument
\* constructor followed by 2 or 3 key-based constructors.
C20_ConstructorsComplete ==
    (node # NoNode /\ (node.key # <<>> \/ is_config(node))) =>
        /\ built.raised = ""
        /\ built.constructors # <<>>
        /\ Head(built.constructors) = empty_constructor
        /\ Len(KeyConstructors) \in {2, 3}

\* the mark methods the class holds for the child last generated
ChildMarks ==
    LET methods == access_methods[Entry(access_methods, child.arg)[1]].methods
    IN  {i \in 1..Len(methods) : methods[i].method = "mark"}

\* the primitive type the resolver gives the child last generated
ChildPrimitive ==
    get_types(child, opts,
              [outputted_warnings |-> <<>>, stderr |-> <<>>]).primitive

\* C13: a leaf-list child gets 8 mark methods when its value type resolves
\* to a non-text primitive and exactly 4 when it is text-typed.
C13_LeafListMarks ==
    (child.keyword = "leaf-list" /\ child_error = "") =>
        Cardinality(ChildMarks) = IF ChildPrimitive # s_String THEN 8 ELSE 4

C15_AbortOnlyWhenNotFound ==
    emit_error = "EmitError" =>
        \E i \in 1..Len(errors) :
            /\ errors[i].is_error
            /\ errors[i].etag \in {s_MODULE_NOT_FOUND, s_MODULE_NOT_FOUND_REV}

\* the class file of the root of document d
RootClass(d) == [module |-> DocName(d), class |-> extract_names(DocName(d))]

\* document d has an augment whose target was resolved to document t
Augments(d, t) ==
    \E i \in 1..Len(documents[d].substmts) :
        /\ documents[d].substmts[i].keyword = "augment"
        /\ documents[d].substmts[i].i_target_is = "stmt"
        /\ documents[d].substmts[i].i_target = t

\* document t is augmented by a module of the list other than itself
AugmentedExternally(t) ==
    \E k \in 1..Len(modules) : modules[k] # t /\ Augments(modules[k], t)

\* C16: in one run of emit the classes of each externally augmented document
\* are generated exactly once, and the registry is empty when the pass of the
\* next module begins (looked at where no document augments itself).
C16_AugmentedOnce ==
    (pc # "" /\ \A d \in Docs : ~Augments(d, d)) =>
        /\ pc = "modules" => DOMAIN augmented_modules = {}
        /\ \A t \in Docs :
               AugmentedExternally(t) => Count(written, RootClass(t)) <= 1
        /\ pc = "done" =>
               \A t \in Docs :
                   AugmentedExternally(t) => Count(written, RootClass(t)) = 1

\* C17: within one generation pass no class of an alias is generated twice.
C17_AliasClassOnce ==
    (pc # "" /\ pass = 1 /\ ~first.ran) =>
        \A name \in {s_percent, s_my_pct} :
            Count(written, [module |-> s_m, class |-> extract_names(name)])
                <= 1

\* C18: generating the classes of a module never puts that module itself
\* into the registry: an augment whose target lies in the document being
\* generated leaves the registry unchanged.
C18_OwnDocumentNotRegistered ==
    [][(pc = "modules" /\ pc' = "augmented") =>
           DocName(modules[pass]) \notin DOMAIN augmented_modules']_vars

\* document d has an augment without a resolved target
UnresolvedAugment(d) ==
    \E i \in 1..Len(documents[d].substmts) :
        /\ documents[d].substmts[i].keyword = "augment"
        /\ documents[d].substmts[i].i_target_is # "stmt"

\* C19: generating a document whose augment has no resolved target writes
\* no class for the augment or its children, issues the warning, leaves the
\* registry unchanged and does not fail.
C19_UnresolvedAugmentSkipped ==
    (/\ pc \in {"augmented", "stopped"}
     /\ emit_error # "EmitError"
     /\ pass = 1 /\ modules[1] = 1 /\ UnresolvedAugment(1)) =>
        /\ emit_error = ""
        /\ \E i \in 1..Len(outputted_warnings) :
               outputted_warnings[i] = s_Target_missing
        /\ DOMAIN augmented_modules = {}
        /\ \A i \in 1..Len(written) : written[i] = RootClass(1)

\* the typedef class was generated without an exception
AliasGenerated == alias_stmt # NoTypedef /\ alias_class.raised = ""

\* the restrictions of the typedef's type
Restricted ==
    \/ alias_stmt.enum # <<>>
    \/ alias_stmt.pattern # <<>>
    \/ alias_stmt.range
    \/ alias_stmt.bit # <<>>

\* the access methods of the typedef class under a key, as one list
AliasMethods(name) ==
    IF Entry(alias_class.access_methods, name) = <<>> THEN <<>>
    ELSE alias_class.access_methods[
             Entry(alias_class.access_methods, name)[1]].methods

\* the check methods of the class, and whether a constructor or setter
\* calls check()
AliasCheckers ==
    IF AliasMethods("check") = <<>> THEN <<>> ELSE AliasMethods("check")[1]
AliasChecks ==
    \/ \E i \in 1..Len(alias_class.constructors) :
           alias_class.constructors[i].check
    \/ \E k \in {"0", "1"} : \E i \in 1..Len(AliasMethods(k)) :
           AliasMethods(k)[i].check

\* C21: a typedef class has a checker method, and its constructors and
\* setters call check(), when the type has enum values or patterns; a
\* typedef whose type has no restriction has no checker method and no call
\* of check().
C21_CheckerIffRestricted ==
    AliasGenerated =>
        /\ (alias_stmt.enum # <<>> \/ alias_stmt.pattern # <<>>) =>
               Len(AliasCheckers) = 1 /\ AliasChecks
        /\ ~Restricted => AliasCheckers = <<>> /\ ~AliasChecks

\* the primitive type of the typedef's ultimate base type
AliasPrimitive ==
    get_types(alias_stmt.stmt.type[1], opts,
              [outputted_warnings |-> <<>>, stderr |-> <<>>]).primitive

\* C22: a typedef class has exactly one constructor, from a string, when
\* the primitive of its ultimate base type is String, and exactly two, from
\* a string and from the primitive, otherwise; no two constructors have the
\* same parameter type.
C22_ConstructorPerParameterType ==
    AliasGenerated =>
        LET cs == alias_class.constructors IN
        /\ Len(cs) = (IF AliasPrimitive = s_String THEN 1 ELSE 2)
        /\ cs[1].parameter = s_String
        /\ Len(cs) = 2 => cs[2].parameter = AliasPrimitive
        /\ \A i, j \in 1..Len(cs) :
               i # j => cs[i].parameter # cs[j].parameter

\* the methods the class holds for the child last generated, without the
\* comment that precedes them
ChildMethods ==
    IF Entry(access_methods, child.arg) = <<>> THEN <<>>
    ELSE LET IsMethod(m) == m.method # "access_methods_comment"
         IN  SelectSeq(access_methods[Entry(access_methods,
                                            child.arg)[1]].methods,
                       IsMethod)

\* the library type the resolver gives the child last generated
ChildLibraryType ==
    get_types(child, opts,
              [outputted_warnings |-> <<>>, stderr |-> <<>>]).netconf

\* the child last generated is a key of the statement the class is for
ChildIsKey ==
    /\ parent_key # <<>>
    /\ \E i \in 1..Len(split(parent_key[1], " ")) :
           split(parent_key[1], " ")[i] = child.arg

\* C23: a leaf child gets, in this order, a value getter, a setter with the
\* library type, a setter with String, a setter with the primitive type iff
\* that is not String, an unset method iff the leaf is not a key, an add
\* method, and the marks replace, merge, create, delete iff the leaf is not
\* a key.
C23_LeafMethodOrder ==
    child.keyword = "leaf" =>
        ChildMethods =
            <<Method("get_value", "leaf", "", ChildLibraryType),
              Method("set_leaf_value", "leaf", "", ChildLibraryType),
              Method("set_leaf_value", "leaf", "", s_String)>>
            \o (IF ChildPrimitive # s_String
                THEN <<Method("set_leaf_value", "leaf", "", ChildPrimitive)>>
                ELSE <<>>)
            \o (IF ChildIsKey THEN <<>>
                ELSE <<Method("unset_value", "leaf", "", <<>>)>>)
            \o <<Method("add_value", "leaf", "", <<>>)>>
            \o (IF ChildIsKey THEN <<>>
                ELSE <<Method("mark", "leaf", "replace", s_String),
                       Method("mark", "leaf", "merge", s_String),
                       Method("mark", "leaf", "create", s_String),
                       Method("mark", "leaf", "delete", s_String)>>)

\* the statements of the recursively expanded effective children
RECURSIVE ExpandedBelow(_)
ExpandedBelow(stmt) ==
    {stmt} \cup
    UNION {ExpandedBelow(stmt.i_children[i]) : i \in 1..Len(stmt.i_children)}
    \cup
    UNION {ExpandedBelow(stmt.substmts[i]) : i \in 1..Len(stmt.substmts)}

ExpandedEffective ==
    UNION {ExpandedBelow(walk_stmt.i_children[i]) :
               i \in 1..Len(walk_stmt.i_children)}

\* the declared substatements that are left, in declaration order
RemainingDeclared ==
    LET Left(s) == s \notin ExpandedEffective
    IN  SelectSeq(walk_stmt.substmts, Left)

\* C24: generate_class passes to generate_child the effective children, in
\* their listed order, and then the declared substatements that are not in
\* the recursively expanded effective children, in declaration order; no
\* statement is passed twice.
C24_WalkOrder ==
    walk_done =>
        /\ passed = walk_stmt.i_children \o RemainingDeclared
        /\ \A i, j \in 1..Len(passed) : i # j => passed[i] # passed[j]

\* a statement with several effective children was walked, one of which is
\* a declared substatement too, and a declared substatement was left
C24_Witness ==
    /\ walk_done
    /\ \E i \in 1..Len(walk_stmt.i_children),
          j \in 1..Len(walk_stmt.substmts) :
           walk_stmt.i_children[i] = walk_stmt.substmts[j]
    /\ Len(walk_stmt.i_children) > 1
    /\ RemainingDeclared # <<>>

\* C25: when the generation of the classes of a document starts, for a
\* module of the list or for an augmented document taken from the registry,
\* make_valid_identifiers has been applied to the tree of that document in
\* this run.
C25_SanitizedBeforeGenerated ==
    [][/\ (pc = "modules" /\ pc' \in {"augmented", "stopped"}) =>
              sanitized'[modules[pass]] > 0
       /\ (pc = "augmented" /\ pending # <<>>) =>
              sanitized[Head(pending)] > 0]_vars

\* C26: in one run of emit make_valid_identifiers is applied to the tree of
\* each document at most once.
C26_SanitizedAtMostOnce ==
    pc # "" => \A d \in Docs : sanitized[d] <= 1

\* C29: when the registry is cleared at the end of the pass of a module,
\* the classes of every document in it have been generated.
C29_RegisteredThenGenerated ==
    [][(pc = "augmented" /\ pc' = "modules") =>
           \A name \in DOMAIN augmented_modules :
               Count(written, RootClass(augmented_modules[name])) > 0]_vars

\* the keys of the appended methods, each at its first append
AppendedKeys ==
    LET keys == [i \in 1..Len(appends) |-> appends[i].key]
        First(i) == \A j \in 1..(i - 1) : keys[j] # keys[i]
    IN  [k \in 1..Cardinality({i \in 1..Len(keys) : First(i)}) |->
            keys[CHOOSE i \in 1..Len(keys) :
                    /\ First(i)
                    /\ Cardinality({j \in 1..i : First(j)}) = k]]

\* the methods appended under a key, in the order of their appends
AppendedUnder(name) ==
    LET Under(a) == a.key = name
        calls_ == SelectSeq(appends, Under)
    IN  [i \in 1..Len(calls_) |-> calls_[i].method]

\* the groups of the keys from position k on, one after the other
RECURSIVE GroupsFrom(_)
GroupsFrom(k) ==
    IF k > Len(AppendedKeys) THEN <<>>
    ELSE AppendedUnder(AppendedKeys[k]) \o GroupsFrom(k + 1)

\* the methods of the rendered body, in the order of its lines
BodyMethods ==
    LET IsMethod(line) == line.kind = "method"
        lines == SelectSeq(body, IsMethod)
    IN  [i \in 1..Len(lines) |-> lines[i].method]

\* C27: the rendered body lists the access methods of one key together, in
\* the order they were appended under that key, the keys in the order of
\* their first append, also when the appends of different keys alternate.
C27_GroupedByKey ==
    body_is = "list" => BodyMethods = GroupsFrom(1)

\* a body was rendered after appends for one key, then another, then the
\* first again
C27_Witness ==
    /\ body_is = "list"
    /\ \E i, j, k \in 1..Len(appends) :
           /\ i < j /\ j < k
           /\ appends[i].key = appends[k].key
           /\ appends[i].key # appends[j].key
           /\ appends[i].method # appends[k].method

\* the conditional lines of the addChild method of the walked statement
ConditionalLines ==
    LET IsConditional(l) == l.line = "if (child instanceof"
    IN  SelectSeq(support_methods[1], IsConditional)

\* C28: in the addChild method of a statement with at least one container
\* child the conditional lines form a chain with one branch per field: the
\* first begins with if, every later one with else if.
C28_AddChildChain ==
    (walk_done /\ fields_of(passed) # <<>>) =>
        /\ Len(ConditionalLines) = Len(fields_of(passed))
        /\ ConditionalLines[1].cond = ""
        /\ \A k \in 2..Len(ConditionalLines) :
               ConditionalLines[k].cond = "else "

\* C30: after any sequence of add, add_first, discard and pop the linked
\* list and the dictionary agree: iterating forward yields each member
\* exactly once, iterating backward yields the reverse of that, the number
\* of items iterated is len(set), and pop on an empty set raises KeyError
\* and leaves the set empty.
C30_ListMatchesMap ==
    /\ {Iter[i] : i \in 1..Len(Iter)} = map
    /\ \A i, j \in 1..Len(Iter) : i # j => Iter[i] # Iter[j]
    /\ _iterate(PREV) = Reverse(Iter)
    /\ Len(Iter) = SetLen
    /\ DOMAIN link = map \cup {END}
    /\ popped.was_empty <=> popped.raised = "KeyError"
    /\ popped.was_empty => popped.len = 0
    /\ (popped # NoPop /\ ~popped.was_empty) => popped.item # END

\* a set that was filled from both ends and emptied again, on which pop
\* then raised
C30_Witness ==
    /\ popped.raised = "KeyError"
    /\ Len(calls) > 0
    /\ ops = MaxOps
====
